---- MODULE Spec2Model ----
(***************************************************************************)
(* A model of kind-adt's runtime (src/src/index.js): make(variants), the   *)
(* per-tag helpers it generates, the bundle-wide unwrap / match / matchW,  *)
(* the standalone unwrap and the stringify used in error messages.         *)
(*                                                                         *)
(* JavaScript strings are sequences of one-character strings, so that      *)
(* slicing, prefix tests, concatenation and Number(...) are computed on    *)
(* the characters.  JavaScript values are tagged tuples (see "Values").    *)
(***************************************************************************)
EXTENDS Integers, Sequences, FiniteSets, TLC

(***************************************************************************)
(* Bounds of the model                                                     *)
(***************************************************************************)
\* the longest argument list a constructor is called with
MaxArgs == 2
\* the largest number of positional-looking keys of a hand-written record
MaxHandKeys == 2
\* the largest number of objects of a heap handed to stringify
MaxHeap == 2

\* the largest number of functions handed to pipe
MaxPipe == 10

\* the largest number of reads of one bundle
MaxReads == 3

(***************************************************************************)
(* Strings                                                                 *)
(***************************************************************************)
\* the character U+0060 (a string of the module cannot hold it)
Backquote == "U+0060"

DigitChars == <<"0","1","2","3","4","5","6","7","8","9">>

IsDigit(c) == \E i \in 1..Len(DigitChars) : DigitChars[i] = c

DigitVal(c) == (CHOOSE i \in 1..Len(DigitChars) : DigitChars[i] = c) - 1

LowerChars == <<"a","b","c","d","e","f","g","h","i","j","k","l","m","n","o","p","q","r","s","t","u","v","w","x","y","z">>

UpperChars == <<"A","B","C","D","E","F","G","H","I","J","K","L","M","N","O","P","Q","R","S","T","U","V","W","X","Y","Z">>

\* String.prototype.toUpperCase on a one-character string
toUpperCase(c) ==
    IF \E i \in 1..Len(LowerChars) : LowerChars[i] = c
    THEN UpperChars[CHOOSE i \in 1..Len(LowerChars) : LowerChars[i] = c]
    ELSE c

\* String.prototype.startsWith
startsWith(str, prefix) ==
    /\ Len(str) >= Len(prefix)
    /\ SubSeq(str, 1, Len(prefix)) = prefix

\* String.prototype.slice(n) for 0 <= n
slice(str, n) == SubSeq(str, n + 1, Len(str))

RECURSIVE DigitsVal(_)
\* the value of a run of decimal digits (0 for the empty run)
DigitsVal(ds) ==
    IF ds = << >> THEN 0
    ELSE 10 * DigitsVal(SubSeq(ds, 1, Len(ds) - 1)) + DigitVal(ds[Len(ds)])

RECURSIVE NumberToString(_)
\* Number.prototype.toString for an integer
NumberToString(n) ==
    IF n < 0 THEN <<"-">> \o NumberToString(0 - n)
    ELSE IF n < 10 THEN <<DigitChars[n + 1]>>
    ELSE NumberToString(n \div 10) \o <<DigitChars[(n % 10) + 1]>>

RECURSIVE Pow10(_)
Pow10(d) == IF d = 0 THEN 1 ELSE 10 * Pow10(d - 1)

(***************************************************************************)
(* Number(string): the numbers of the model are decimal fractions          *)
(* n / 10^d, or NaN.  The strings of the model hold no white space, no     *)
(* exponent, no radix prefix and no "Infinity", so StringToNumber is: the  *)
(* empty string is 0; an optional sign, digits, an optional "." and        *)
(* digits, with at least one digit, is that decimal; all else is NaN.      *)
(***************************************************************************)
NaN == [nan |-> TRUE, n |-> 0, d |-> 0]

Dec(n, d) == [nan |-> FALSE, n |-> n, d |-> d]

UnsignedToNumber(s) ==
    LET dots == {i \in 1..Len(s) : s[i] = "."}
        dot  == IF dots = {} THEN Len(s) + 1 ELSE CHOOSE i \in dots : TRUE
        ip   == SubSeq(s, 1, dot - 1)
        fp   == SubSeq(s, dot + 1, Len(s))
    IN  IF /\ Cardinality(dots) <= 1
           /\ \A i \in 1..Len(ip) : IsDigit(ip[i])
           /\ \A i \in 1..Len(fp) : IsDigit(fp[i])
           /\ Len(ip) + Len(fp) >= 1
        THEN Dec(DigitsVal(ip \o fp), Len(fp))
        ELSE NaN

StringToNumber(s) ==
    IF s = << >> THEN Dec(0, 0)
    ELSE IF s[1] = "-"
         THEN LET u == UnsignedToNumber(slice(s, 1))
              IN  IF u.nan THEN NaN ELSE Dec(0 - u.n, u.d)
    ELSE IF s[1] = "+" THEN UnsignedToNumber(slice(s, 1))
    ELSE UnsignedToNumber(s)

\* the sign of a - b, for two numbers that are not NaN
NumberMinus(a, b) == a.n * Pow10(b.d) - b.n * Pow10(a.d)

(***************************************************************************)
(* Values                                                                  *)
(*   <<"undefined">>, <<"null">>, <<"number", n>>, <<"string", chars>>,    *)
(*   <<"array", items>>,                                                   *)
(*   <<"object", entries>>: a plain object, its own enumerable properties  *)
(*       as <<key, value>> pairs in property order,                        *)
(*   <<"function", kind, name, entries, env>>: a function object: which    *)
(*       code it runs, its name, its own enumerable properties and the     *)
(*       variables it closes over,                                         *)
(*   <<"number", 0, "NaN">>, <<"number", 0, "Infinity">>: the numbers that   *)
(*       are not finite; <<"boolean", b>>; <<"bigint", n>>;                *)
(*       <<"symbol", description>>: a symbol as a value,                   *)
(*   <<"date", ms>>: a Date by its time value, <<"date", 0, "NaN">> the    *)
(*       invalid Date; <<"regexp", source, flags>>,                        *)
(*   <<"map", pairs>>, <<"set", items>>: a Map as its <<key, value>> pairs  *)
(*       and a Set as its elements, in insertion order,                    *)
(*   <<"ref", i>>: the i-th object of a heap (a sequence of objects), for  *)
(*       objects that are reached by more than one path,                   *)
(*   <<"result", name, args>>: what the caller's function `name` returns   *)
(*       for the arguments args.                                           *)
(* A string key is a sequence of characters; a symbol key is a sequence    *)
(* of one element, the symbol's description text.  No key of the model is  *)
(* an array index, so property order is insertion order.                   *)
(***************************************************************************)
Undefined == <<"undefined">>

Null == <<"null">>

Num(n) == <<"number", n>>

Str(s) == <<"string", s>>

Arr(items) == <<"array", items>>

Obj(entries) == <<"object", entries>>

Fun(kind, name, entries, env) == <<"function", kind, name, entries, env>>

typeof(v) == v[1]

IsNullish(v) == v = Undefined \/ v = Null

\* Symbol.for("nodejs.util.inspect.custom")
\* a symbol used as a property key: its description after the mark "symbol",
\* which no string key starts with (a string key is a run of characters)
Sym(description) == <<"symbol">> \o description

SymInspect == Sym(<<"n","o","d","e","j","s",".","u","t","i","l",".","i","n","s","p","e","c","t",".","c","u","s","t","o","m">>)

IsSymbolKey(k) == k # << >> /\ k[1] = "symbol"

\* Symbol.prototype.toString of a key
SymbolToString(k) == <<"S","y","m","b","o","l","(">> \o Tail(k) \o <<")">>

OwnEntries(v) ==
    IF typeof(v) = "object" THEN v[2]
    ELSE IF typeof(v) = "function" THEN v[4]
    ELSE << >>

HasOwn(v, key) == \E i \in 1..Len(OwnEntries(v)) : OwnEntries(v)[i][1] = key

OwnValue(v, key) ==
    LET es == OwnEntries(v)
    IN  es[CHOOSE i \in 1..Len(es) : es[i][1] = key][2]

\* ToBoolean
Truthy(v) ==
    /\ ~IsNullish(v)
    /\ v # Num(0)
    /\ v # Str(<< >>)
    /\ v # <<"boolean", FALSE>>
    /\ v # <<"number", 0, "NaN">>

\* ToPropertyKey of the values the model uses as keys
ToPropertyKey(v) ==
    IF typeof(v) = "string" THEN v[2]
    ELSE IF typeof(v) = "number" THEN NumberToString(v[2])
    ELSE IF v = Null THEN <<"n","u","l","l">>
    ELSE <<"u","n","d","e","f","i","n","e","d">>

S_tag == <<"_","t","a","g">>

S_toString == <<"t","o","S","t","r","i","n","g">>

S_valueOf == <<"v","a","l","u","e","O","f">>

S_underscore == <<"_">>

S_isPrototypeOf == <<"i","s","P","r","o","t","o","t","y","p","e","O","f">>

\* the members of Object.prototype among the names the model uses
ObjectPrototype ==
    << <<S_toString, Fun("native", S_toString, << >>, << >>)>>,
       <<S_valueOf, Fun("native", S_valueOf, << >>, << >>)>>,
       <<S_isPrototypeOf, Fun("native", S_isPrototypeOf, << >>, << >>)>> >>

\* obj[key] for an object or a function: own properties first, then the
\* prototype chain (a function's name is an own property of it)
GetProp(v, key) ==
    IF HasOwn(v, key) THEN OwnValue(v, key)
    ELSE IF typeof(v) = "function" /\ key = <<"n","a","m","e">> THEN Str(v[3])
    ELSE IF typeof(v) \in {"object", "function"} /\ HasOwn(Obj(ObjectPrototype), key)
         THEN OwnValue(Obj(ObjectPrototype), key)
    ELSE Undefined

\* key in obj
HasProp(v, key) ==
    \/ HasOwn(v, key)
    \/ HasOwn(Obj(ObjectPrototype), key)

(***************************************************************************)
(* entriesOf, unwrap                                                       *)
(***************************************************************************)
\* for (const key in obj) if (hasOwnProperty.call(obj, key)) push [key, obj[key]]:
\* the own enumerable string-keyed properties, in property order; nothing for
\* null and undefined; the indexed characters of a string
entriesOf(obj) ==
    IF typeof(obj) = "string"
    THEN [i \in 1..Len(obj[2]) |-> <<NumberToString(i - 1), Str(<<obj[2][i]>>)>>]
    ELSE SelectSeq(OwnEntries(obj), LAMBDA e : ~IsSymbolKey(e[1]))

\* .filter(([key]) => key.startsWith("_") && !Object.is(Number(key.slice(1)), NaN))
IsFieldKey(key) ==
    /\ startsWith(key, S_underscore)
    /\ ~StringToNumber(slice(key, 1)).nan

\* a comparator with its operands exchanged (sorts descending)
CompareFieldKeys_exchanged(a, b) ==
    NumberMinus(StringToNumber(slice(b, 1)), StringToNumber(slice(a, 1)))

\* ([a], [b]) => Number(a.slice(1)) - Number(b.slice(1))
CompareFieldKeys(a, b) ==
    NumberMinus(StringToNumber(slice(a, 1)), StringToNumber(slice(b, 1)))

RECURSIVE InsertEntry(_, _)
\* e put into a sorted sequence, after every entry that does not compare greater
InsertEntry(sorted, e) ==
    IF sorted = << >> THEN <<e>>
    ELSE IF CompareFieldKeys(sorted[Len(sorted)][1], e[1]) <= 0 THEN Append(sorted, e)
    ELSE Append(InsertEntry(SubSeq(sorted, 1, Len(sorted) - 1), e), sorted[Len(sorted)])

RECURSIVE SortEntries(_)
\* Array.prototype.sort with CompareFieldKeys: a stable sort
SortEntries(es) ==
    IF es = << >> THEN << >>
    ELSE InsertEntry(SortEntries(SubSeq(es, 1, Len(es) - 1)), es[Len(es)])

\* the standalone unwrap
unwrap(adt) ==
    LET kept   == SelectSeq(entriesOf(adt), LAMBDA e : IsFieldKey(e[1]))
        sorted == SortEntries(kept)
    IN  [i \in 1..Len(sorted) |-> sorted[i][2]]

(***************************************************************************)
(* stringify                                                               *)
(***************************************************************************)
RECURSIVE Join(_, _)
\* Array.prototype.join
Join(strs, sep) ==
    IF strs = << >> THEN << >>
    ELSE IF Len(strs) = 1 THEN strs[1]
    ELSE strs[1] \o sep \o Join(Tail(strs), sep)

RECURSIVE JsonEscape(_)
JsonEscape(s) ==
    IF s = << >> THEN << >>
    ELSE (IF s[1] \in {"\"", "\\"} THEN <<"\\", s[1]>> ELSE <<s[1]>>) \o JsonEscape(Tail(s))

\* JSON.stringify of a string
JsonString(s) == <<"\"">> \o JsonEscape(s) \o <<"\"">>

IsIdentStart(c) ==
    \/ \E i \in 1..Len(LowerChars) : LowerChars[i] = c
    \/ \E i \in 1..Len(UpperChars) : UpperChars[i] = c
    \/ c \in {"_", "$"}

\* identifierRegex = /^[A-Za-z_$][A-Za-z0-9_$]*$/
identifierRegex(key) ==
    /\ Len(key) >= 1
    /\ IsIdentStart(key[1])
    /\ \A i \in 2..Len(key) : IsIdentStart(key[i]) \/ IsDigit(key[i])

\* typeof key === "symbol" ? `[${key.toString()}]`
\*   : identifierRegex.test(key) ? key : JSON.stringify(key)
keyDisplay(key) ==
    IF IsSymbolKey(key) THEN <<"[">> \o SymbolToString(key) \o <<"]">>
    ELSE IF identifierRegex(key) THEN key
    ELSE JsonString(key)

\* JSON.stringify of a number: null for NaN and the infinities
JsonNumber(value) == IF Len(value) = 2 THEN NumberToString(value[2]) ELSE <<"n","u","l","l">>

\* n written with at least `width` digits
Padded(n, width) ==
    LET digits == NumberToString(n)
    IN  [i \in 1..(width - Len(digits)) |-> "0"] \o digits

\* what the text of a value holds where a call inside serialize raised
\* RangeError: Invalid time value (no character of a text is this string)
InvalidTime == "RangeError: Invalid time value"

\* Date.prototype.toISOString, for the invalid Date and the times of
\* 1970-01-01 (0 <= ms < 86400000): it raises for an invalid Date
toISOString(date) ==
    IF Len(date) = 3 THEN <<InvalidTime>>
    ELSE LET ms == date[2]
         IN  <<"1","9","7","0","-","0","1","-","0","1","T">>
                 \o Padded(ms \div 3600000, 2) \o <<":">>
                 \o Padded((ms \div 60000) % 60, 2) \o <<":">>
                 \o Padded((ms \div 1000) % 60, 2) \o <<".">>
                 \o Padded(ms % 1000, 3) \o <<"Z">>

\* the object a value is: the heap's object for a reference
Deref(objects, value) == IF value[1] = "ref" THEN objects[value[2]] ELSE value

\* an indexOf that finds anything in an array that is not empty
indexOf_any(array, value) == IF array = << >> THEN -1 ELSE 0

\* Array.prototype.indexOf: the first index of value (by identity), or -1
indexOf(array, value) ==
    IF \E i \in 1..Len(array) : array[i] = value
    THEN (CHOOSE i \in 1..Len(array) :
              array[i] = value /\ \A j \in 1..(i - 1) : array[j] # value) - 1
    ELSE -1

\* a list that also holds the second object, ancestor or not
nextAncestors_other(ancestors, value) == Append(ancestors, value) \o << <<"ref", 2>> >>

\* const nextAncestors = ancestors.concat([value])
nextAncestors(ancestors, value) == Append(ancestors, value)

RECURSIVE serialize(_, _, _)
\* serialize(value, ancestors), the objects value refers to being in `objects`
serialize(objects, value, ancestors) ==
    LET object == Deref(objects, value)
    IN  IF typeof(object) = "bigint" THEN NumberToString(object[2]) \o <<"n">>
        ELSE IF typeof(object) = "function"
        THEN IF object[3] # << >>
             THEN <<"[","F","u","n","c","t","i","o","n",":"," ">> \o object[3] \o <<"]">>
             ELSE <<"[","F","u","n","c","t","i","o","n"," ","(","a","n","o","n","y","m","o","u","s",")","]">>
        ELSE IF typeof(object) = "symbol" THEN <<"S","y","m","b","o","l","(">> \o object[2] \o <<")">>
        ELSE IF object = Undefined THEN <<"u","n","d","e","f","i","n","e","d">>
        ELSE IF object = Null THEN <<"n","u","l","l">>
        ELSE IF typeof(object) \in {"object", "array", "map", "set", "date", "regexp"}
        THEN IF indexOf(ancestors, value) # -1
             THEN <<"[","C","i","r","c","u","l","a","r","]">>
             ELSE LET following == nextAncestors(ancestors, value)
                  IN  IF typeof(object) = "date" THEN toISOString(object)
                      ELSE IF typeof(object) = "regexp"
                      THEN <<"/">> \o object[2] \o <<"/">> \o object[3]
                      ELSE IF typeof(object) = "map"
                      THEN LET entries ==
                                   Join([i \in 1..Len(object[2]) |->
                                            serialize(objects, object[2][i][1], following)
                                                \o <<" ","=",">"," ">>
                                                \o serialize(objects, object[2][i][2], following)],
                                        <<","," ">>)
                           IN  <<"M","a","p","(">> \o NumberToString(Len(object[2])) \o <<")"," ">>
                                   \o (IF entries # << >>
                                       THEN <<"{", " ">> \o entries \o <<" ", "}">>
                                       ELSE <<"{", "}">>)
                      ELSE IF typeof(object) = "set"
                      THEN LET values ==
                                   Join([i \in 1..Len(object[2]) |->
                                            serialize(objects, object[2][i], following)],
                                        <<","," ">>)
                           IN  <<"S","e","t","(">> \o NumberToString(Len(object[2])) \o <<")"," ">>
                                   \o (IF values # << >>
                                       THEN <<"{", " ">> \o values \o <<" ", "}">>
                                       ELSE <<"{", "}">>)
                      ELSE IF typeof(object) = "array"
                      THEN LET arrayItems ==
                                   Join([i \in 1..Len(object[2]) |->
                                            serialize(objects, object[2][i], following)],
                                        <<","," ">>)
                           IN  <<"[">> \o arrayItems \o <<"]">>
                      ELSE LET objectEntries ==
                                   Join([i \in 1..Len(object[2]) |->
                                            keyDisplay(object[2][i][1]) \o <<":"," ">>
                                                \o serialize(objects, object[2][i][2],
                                                             following)],
                                        <<","," ">>)
                           IN  IF objectEntries # << >>
                               THEN <<"{", " ">> \o objectEntries \o <<" ", "}">>
                               ELSE <<"{", "}">>
        ELSE IF typeof(object) = "string" THEN JsonString(object[2])
        ELSE IF typeof(object) = "boolean" THEN (IF object[2] THEN <<"t","r","u","e">> ELSE <<"f","a","l","s","e">>)
        ELSE JsonNumber(object)

\* stringify(value), value holding no reference
stringify(value) == serialize(<< >>, value, << >>)

\* a call inside serialize raised
Raised(text) == \E i \in 1..Len(text) : text[i] = InvalidTime

(***************************************************************************)
(* Calls.  What a call does is an effect: the functions of the caller it   *)
(* invoked, in order, each with its arguments, and how it ended.           *)
(***************************************************************************)
Return(v) == [calls |-> << >>, out |-> <<"return", v>>]

Throw(name, message) == [calls |-> << >>, out |-> <<"throw", name, message>>]

\* reading a property of null or undefined: the engine's TypeError
ThrowNullRead(v, key) ==
    Throw(<<"T","y","p","e","E","r","r","o","r">>,
          <<"C","a","n","n","o","t"," ","r","e","a","d"," ","p","r","o","p","e","r","t","i","e","s"," ","o","f"," ">> \o stringify(v) \o <<" ","(","r","e","a","d","i","n","g"," ","'">> \o key \o <<"'",")">>)

\* fn(...args), fn a function of the caller or a built-in the lookup reached
Invoke(fn, thisArg, args) ==
    [calls |-> << <<fn, args>> >>,
     out   |-> IF fn[2] = "native"
               THEN IF fn[3] = S_valueOf THEN <<"return", thisArg>>
                    ELSE IF fn[3] = S_isPrototypeOf THEN <<"return", <<"boolean", FALSE>> >>
                    ELSE <<"return", Str(<<"[","o","b","j","e","c","t"," ","O","b","j","e","c","t","]">>)>>
               ELSE <<"return", <<"result", fn[3], args>> >>]

\* a function written by the caller: a case of a case mapping, onMatch, otherwise
Handler(name) == Fun("handler", name, << >>, << >>)

(***************************************************************************)
(* make(variants): the helper factories                                    *)
(***************************************************************************)
\* a guard that only tests that a discriminant is there
createGuard_anyTag(tag, adt) ==
    IF IsNullish(adt) THEN ThrowNullRead(adt, S_tag)
    ELSE Return(<<"boolean", Truthy(GetProp(adt, S_tag))>>)

\* createGuard(tag)(adt)
createGuard(tag, adt) ==
    IF IsNullish(adt) THEN ThrowNullRead(adt, S_tag)
    ELSE Return(<<"boolean", GetProp(adt, S_tag) = Str(tag)>>)

\* a conditional deconstructor that hands the fields to otherwise too
createConditionalDeconstructor_fields(tag, adt, onMatch, otherwise) ==
    IF IsNullish(adt) THEN ThrowNullRead(adt, S_tag)
    ELSE IF GetProp(adt, S_tag) = Str(tag) THEN Invoke(onMatch, Undefined, unwrap(adt))
    ELSE IF Truthy(otherwise) THEN Invoke(otherwise, Undefined, unwrap(adt))
    ELSE Return(Undefined)

\* createConditionalDeconstructor(tag)(adt, onMatch, otherwise)
createConditionalDeconstructor(tag, adt, onMatch, otherwise) ==
    IF IsNullish(adt) THEN ThrowNullRead(adt, S_tag)
    ELSE IF GetProp(adt, S_tag) = Str(tag) THEN Invoke(onMatch, Undefined, unwrap(adt))
    ELSE IF Truthy(otherwise) THEN Invoke(otherwise, Undefined, <<adt>>)
    ELSE Return(Undefined)

\* a deconstructor that rejects null and undefined alone
createDeconstructor_nullOnly(tag, adt) ==
    IF adt = Null \/ adt = Undefined
    THEN Throw(<<"T","y","p","e","E","r","r","o","r">>,
               <<"E","x","p","e","c","t","e","d"," ",Backquote>> \o tag \o <<"(",".",".",".",")",Backquote,","," ","b","u","t"," ","g","o","t"," ",Backquote>> \o stringify(adt) \o <<Backquote>>)
    ELSE Return(Arr(unwrap(adt)))

\* createDeconstructor(tag)(adt)
createDeconstructor(tag, adt) ==
    IF adt = Null \/ adt = Undefined \/ GetProp(adt, S_tag) # Str(tag)
    THEN Throw(<<"T","y","p","e","E","r","r","o","r">>,
               <<"E","x","p","e","c","t","e","d"," ",Backquote>> \o tag \o <<"(",".",".",".",")",Backquote,","," ","b","u","t"," ","g","o","t"," ",Backquote>> \o stringify(adt) \o <<Backquote>>)
    ELSE Return(Arr(unwrap(adt)))

\* a constructor that was given no _tag of its own
createConstructor_noTag(tag) ==
    Fun("constructor", tag,
        << <<<<"t","o","J","S","O","N">>, Fun("arrow", <<"t","o","J","S","O","N">>, << >>, tag)>>,
           <<SymInspect, Fun("arrow", <<"[","n","o","d","e","j","s",".","u","t","i","l",".","i","n","s","p","e","c","t",".","c","u","s","t","o","m","]">>, << >>, tag)>> >>,
        tag)

\* createConstructor(tag): the constructor, a function with the properties
\* Object.assign gave it
createConstructor(tag) ==
    Fun("constructor", tag,
        << <<S_tag, Str(tag)>>,
           <<<<"t","o","J","S","O","N">>, Fun("arrow", <<"t","o","J","S","O","N">>, << >>, tag)>>,
           <<SymInspect, Fun("arrow", <<"[","n","o","d","e","j","s",".","u","t","i","l",".","i","n","s","p","e","c","t",".","c","u","s","t","o","m","]">>, << >>, tag)>> >>,
        tag)

\* a constructor whose loop starts at the second argument
construct_fromSecond(tag, args) ==
    Obj(<< <<S_tag, Str(tag)>> >>
        \o [i \in 1..(Len(args) - 1) |->
               <<S_underscore \o NumberToString(i), args[i + 1]>>])

\* createConstructor(tag)(...args)
construct(tag, args) ==
    Obj(<< <<S_tag, Str(tag)>> >>
        \o [i \in 1..Len(args) |-> <<S_underscore \o NumberToString(i - 1), args[i]>>])

(***************************************************************************)
(* _match and the bundle-wide helpers                                      *)
(***************************************************************************)
\* a dispatch that tries the catch-all before the case of the discriminant
_match_catchAllFirst(adt, cases) ==
    LET arm == IF IsNullish(adt) THEN Undefined
               ELSE GetProp(cases, ToPropertyKey(GetProp(adt, S_tag)))
    IN  IF Truthy(GetProp(cases, S_underscore))
        THEN Invoke(GetProp(cases, S_underscore), cases, <<adt>>)
        ELSE IF ~IsNullish(adt) /\ Truthy(arm) THEN Invoke(arm, cases, unwrap(adt))
        ELSE Throw(<<"E","r","r","o","r">>,
                   <<"N","o"," ","c","a","s","e"," ","f","o","u","n","d"," ","f","o","r"," ",Backquote>> \o stringify(adt)
                       \o <<Backquote,"."," ","C","o","n","s","i","d","e","r"," ","a","d","d","i","n","g"," ","a"," ","c","a","t","c","h","-","a","l","l"," ","c","a","s","e"," ","(",Backquote,"_",Backquote,")"," ","i","f"," ","n","e","e","d","e","d">>)

_match(adt, cases) ==
    LET arm == IF IsNullish(adt) THEN Undefined
               ELSE GetProp(cases, ToPropertyKey(GetProp(adt, S_tag)))
    IN  IF ~IsNullish(adt) /\ Truthy(arm) THEN Invoke(arm, cases, unwrap(adt))
        ELSE IF Truthy(GetProp(cases, S_underscore))
             THEN Invoke(GetProp(cases, S_underscore), cases, <<adt>>)
        ELSE Throw(<<"E","r","r","o","r">>,
                   <<"N","o"," ","c","a","s","e"," ","f","o","u","n","d"," ","f","o","r"," ",Backquote>> \o stringify(adt)
                       \o <<Backquote,"."," ","C","o","n","s","i","d","e","r"," ","a","d","d","i","n","g"," ","a"," ","c","a","t","c","h","-","a","l","l"," ","c","a","s","e"," ","(",Backquote,"_",Backquote,")"," ","i","f"," ","n","e","e","d","e","d">>)

\* a test against the first declared tag alone
NotInVariants_firstOnly(variants, adt) ==
    \/ IsNullish(adt)
    \/ Len(variants[2]) = 0
    \/ variants[2][1] # GetProp(adt, S_tag)

\* adt == null || variants.indexOf(adt._tag) === -1
NotInVariants(variants, adt) ==
    \/ IsNullish(adt)
    \/ ~\E i \in 1..Len(variants[2]) : variants[2][i] = GetProp(adt, S_tag)

\* an error that lists the declared tags last to first
ThrowExpectedVariants_reversed(variants, adt) ==
    Throw(<<"T","y","p","e","E","r","r","o","r">>,
          <<"E","x","p","e","c","t","e","d"," ">>
              \o Join([i \in 1..Len(variants[2]) |->
                          <<Backquote>> \o variants[2][Len(variants[2]) + 1 - i][2] \o <<"(",".",".",".",")",Backquote>>], <<"/">>)
              \o <<","," ","b","u","t"," ","g","o","t"," ",Backquote>> \o stringify(adt) \o <<Backquote>>)

\* new TypeError(`Expected ${variants.map(...).join("/")}, but got \`${stringify(adt)}\``)
ThrowExpectedVariants(variants, adt) ==
    Throw(<<"T","y","p","e","E","r","r","o","r">>,
          <<"E","x","p","e","c","t","e","d"," ">>
              \o Join([i \in 1..Len(variants[2]) |->
                          <<Backquote>> \o variants[2][i][2] \o <<"(",".",".",".",")",Backquote>>], <<"/">>)
              \o <<","," ","b","u","t"," ","g","o","t"," ",Backquote>> \o stringify(adt) \o <<Backquote>>)

\* a bundle's unwrap that leaves the fields in the order of the record's keys
result_unwrap_unsorted(variants, adt) ==
    IF Truthy(variants)
    THEN IF NotInVariants(variants, adt) THEN ThrowExpectedVariants(variants, adt)
         ELSE LET kept == SelectSeq(entriesOf(adt), LAMBDA e : IsFieldKey(e[1]))
              IN  Return(Arr([i \in 1..Len(kept) |-> kept[i][2]]))
    ELSE Return(Arr(unwrap(adt)))

\* result.unwrap of a bundle
result_unwrap(variants, adt) ==
    IF Truthy(variants)
    THEN IF NotInVariants(variants, adt) THEN ThrowExpectedVariants(variants, adt)
         ELSE LET kept   == SelectSeq(entriesOf(adt), LAMBDA e : IsFieldKey(e[1]))
                  sorted == SortEntries(kept)
              IN  Return(Arr([i \in 1..Len(sorted) |-> sorted[i][2]]))
    ELSE Return(Arr(unwrap(adt)))

\* a curried matcher that leaves the test of the tag out
match_curried_variants_unchecked(variants, cases, adt) == _match(adt, cases)

\* the function match(adt) that match(cases) returns, applied (precomputed mode)
match_curried_variants(variants, cases, adt) ==
    IF NotInVariants(variants, adt) THEN ThrowExpectedVariants(variants, adt)
    ELSE _match(adt, cases)

\* a curried match that keeps `_` for the catch-all: a value whose
\* discriminant is `_` goes to it as every other value does
match_curried_underscoreReserved(cases, adt) ==
    IF ~IsNullish(adt) /\ GetProp(adt, S_tag) = Str(S_underscore)
          /\ Truthy(GetProp(cases, S_underscore))
    THEN Invoke(GetProp(cases, S_underscore), cases, <<adt>>)
    ELSE _match(adt, cases)

\* the function match(adt) that match(cases) returns, applied (dynamic mode)
match_curried(cases, adt) == _match(adt, cases)

\* result.match of a bundle, called with one or two arguments
match(variants, adt, cases) ==
    IF Truthy(variants)
    THEN IF ~Truthy(cases)
         THEN Return(Fun("match_curried_variants", <<"m","a","t","c","h">>, << >>, <<variants, adt>>))
         ELSE IF NotInVariants(variants, adt) THEN ThrowExpectedVariants(variants, adt)
         ELSE _match(adt, cases)
    ELSE IF ~Truthy(cases)
         THEN Return(Fun("match_curried", <<"m","a","t","c","h">>, << >>, <<variants, adt>>))
         ELSE _match(adt, cases)

\* a curried matchW that dispatches before it tests the tag
matchW_curried_variants_dispatchFirst(variants, cases, adt) ==
    IF Truthy(GetProp(cases, S_underscore)) THEN _match(adt, cases)
    ELSE IF NotInVariants(variants, adt) THEN ThrowExpectedVariants(variants, adt)
    ELSE _match(adt, cases)

\* the function matchW(adt) that matchW(cases) returns, applied (precomputed mode)
matchW_curried_variants(variants, cases, adt) ==
    IF NotInVariants(variants, adt) THEN ThrowExpectedVariants(variants, adt)
    ELSE _match(adt, cases)

\* the function matchW(adt) that matchW(cases) returns, applied (dynamic mode)
matchW_curried(cases, adt) == _match(adt, cases)

\* a matchW that tests the tag in no mode
matchW_unchecked(variants, adt, cases) ==
    IF ~Truthy(cases)
    THEN Return(Fun(IF Truthy(variants) THEN "matchW_curried_variants" ELSE "matchW_curried",
                    <<"m","a","t","c","h","W">>, << >>, <<variants, adt>>))
    ELSE _match(adt, cases)

\* result.matchW of a bundle, called with one or two arguments
matchW(variants, adt, cases) ==
    IF Truthy(variants)
    THEN IF ~Truthy(cases)
         THEN Return(Fun("matchW_curried_variants", <<"m","a","t","c","h","W">>, << >>, <<variants, adt>>))
         ELSE IF NotInVariants(variants, adt) THEN ThrowExpectedVariants(variants, adt)
         ELSE _match(adt, cases)
    ELSE IF ~Truthy(cases)
         THEN Return(Fun("matchW_curried", <<"m","a","t","c","h","W">>, << >>, <<variants, adt>>))
         ELSE _match(adt, cases)

\* calling a function that match(cases) or matchW(cases) returned
ApplyCurried(fn, adt) ==
    IF fn[2] = "match_curried_variants" THEN match_curried_variants(fn[5][1], fn[5][2], adt)
    ELSE IF fn[2] = "match_curried" THEN match_curried(fn[5][2], adt)
    ELSE IF fn[2] = "matchW_curried_variants"
         THEN matchW_curried_variants(fn[5][1], fn[5][2], adt)
    ELSE matchW_curried(fn[5][2], adt)

(***************************************************************************)
(* make(variants): the bundle                                              *)
(***************************************************************************)
\* str.startsWith(prefix) && str.length > prefix.length
\*   && str[prefix.length] === str[prefix.length].toUpperCase()
matchesPrefix(str, prefix) ==
    /\ startsWith(str, prefix)
    /\ Len(str) > Len(prefix)
    /\ str[Len(prefix) + 1] = toUpperCase(str[Len(prefix) + 1])

\* the helpers as function values: each closes over its tag (or over variants)
GuardFn(tag) == Fun("createGuard", <<"i","s">> \o tag, << >>, tag)

ConditionalFn(tag) == Fun("createConditionalDeconstructor", <<"i","f">> \o tag, << >>, tag)

DeconstructorFn(tag) == Fun("createDeconstructor", <<"u","n","w","r","a","p">> \o tag, << >>, tag)

\* const result = { unwrap, match, matchW }
result(variants) ==
    Obj(<< <<<<"u","n","w","r","a","p">>,
             IF Truthy(variants) THEN Fun("result_unwrap", <<"u","n","w","r","a","p">>, << >>, variants)
             ELSE Fun("unwrap", <<"u","n","w","r","a","p">>, << >>, << >>)>>,
           <<<<"m","a","t","c","h">>, Fun("match", <<"m","a","t","c","h">>, << >>, variants)>>,
           <<<<"m","a","t","c","h","W">>, Fun("matchW", <<"m","a","t","c","h","W">>, << >>, variants)>> >>)

\* obj[key] = value on a plain object
SetProp(obj, key, value) ==
    IF HasOwn(obj, key)
    THEN Obj([i \in 1..Len(obj[2]) |->
                 IF obj[2][i][1] = key THEN <<key, value>> ELSE obj[2][i]])
    ELSE Obj(Append(obj[2], <<key, value>>))

RECURSIVE AssignHelpers(_, _)
\* for (const tag of variants) { result[tag] = ...; result[`is${tag}`] = ...; ... }
AssignHelpers(res, tags) ==
    IF tags = << >> THEN res
    ELSE LET tag == tags[1][2]
             r1  == SetProp(res, tag, createConstructor(tag))
             r2  == SetProp(r1, <<"i","s">> \o tag, GuardFn(tag))
             r3  == SetProp(r2, <<"i","f">> \o tag, ConditionalFn(tag))
             r4  == SetProp(r3, <<"u","n","w","r","a","p">> \o tag, DeconstructorFn(tag))
         IN  AssignHelpers(r4, Tail(tags))

\* the get trap of the Proxy that make() returns
get(target, prop) ==
    IF HasProp(target, prop) THEN GetProp(target, prop)
    ELSE IF matchesPrefix(prop, <<"i","s">>) THEN GuardFn(slice(prop, 2))
    ELSE IF matchesPrefix(prop, <<"i","f">>) THEN ConditionalFn(slice(prop, 2))
    ELSE IF matchesPrefix(prop, <<"u","n","w","r","a","p">>) THEN DeconstructorFn(slice(prop, 6))
    ELSE createConstructor(prop)

\* make(variants)[prop]: a read of the Proxy (dynamic mode) or of the plain
\* object (precomputed mode)
make(variants, prop) ==
    IF ~Truthy(variants) THEN get(result(variants), prop)
    ELSE GetProp(AssignHelpers(result(variants), variants[2]), prop)

\* args[i], undefined past the arguments given
Arg(args, i) == IF i <= Len(args) THEN args[i] ELSE Undefined

\* fn(...args) for a function read from a bundle, bundle being the receiver
Apply(fn, bundle, args) ==
    IF fn[2] = "constructor" THEN Return(construct(fn[5], args))
    ELSE IF fn[2] = "createGuard" THEN createGuard(fn[5], Arg(args, 1))
    ELSE IF fn[2] = "createConditionalDeconstructor"
         THEN createConditionalDeconstructor(fn[5], Arg(args, 1), Arg(args, 2), Arg(args, 3))
    ELSE IF fn[2] = "createDeconstructor" THEN createDeconstructor(fn[5], Arg(args, 1))
    ELSE IF fn[2] = "unwrap" THEN Return(Arr(unwrap(Arg(args, 1))))
    ELSE IF fn[2] = "result_unwrap" THEN result_unwrap(fn[5], Arg(args, 1))
    ELSE IF fn[2] = "match" THEN match(fn[5], Arg(args, 1), Arg(args, 2))
    ELSE IF fn[2] = "matchW" THEN matchW(fn[5], Arg(args, 1), Arg(args, 2))
    ELSE Invoke(fn, bundle, args)

(***************************************************************************)
(* The inputs of the model                                                 *)
(***************************************************************************)
T_Some == <<"S","o","m","e">>

T_None == <<"N","o","n","e">>

T_Leaf == <<"L","e","a","f">>

\* make() and make(["Some", "None"])
VariantChoices == {Undefined, Arr(<<Str(T_Some), Str(T_None)>>)}

\* the discriminants of the values the helpers are given
Tags == {T_Some, T_None, T_Leaf, S_underscore, S_toString}

\* the properties read from a bundle to get a constructor
ConstructorNames == Tags

\* the properties read from a bundle to get a per-tag helper
PerTagNames(t) == { <<"i","s">> \o t, <<"i","f">> \o t, <<"u","n","w","r","a","p">> \o t }

HelperNames == UNION {PerTagNames(t) : t \in {T_Some, T_None, T_Leaf}}

\* what is passed as an argument of a constructor
FieldValues == {Num(1), Num(2), Undefined}

ArgLists == UNION {[1..n -> FieldValues] : n \in 0..MaxArgs}

\* the keys of a record written by hand, besides _tag
HandKeys == { <<"_","0">>, <<"_","1">>, <<"_","2">>, <<"_">>, <<"_","-","1">>, <<"x">> }

HandKeyLists ==
    {ks \in UNION {[1..n -> HandKeys] : n \in 0..MaxHandKeys} :
        \A i, j \in 1..Len(ks) : i # j => ks[i] # ks[j]}

\* { _tag: tag, [ks[1]]: 1, [ks[2]]: 2, ... }, or the same without _tag
HandRecord(tag, ks) ==
    Obj((IF tag = Undefined THEN << >> ELSE << <<S_tag, tag>> >>)
        \o [i \in 1..Len(ks) |-> <<ks[i], Num(i)>>])

\* the keys of a case mapping; the function under key k is named k
CaseKeys == <<T_Some, T_None, S_underscore, S_toString>>

CaseMapping(keys) ==
    Obj([i \in 1..Len(SelectSeq(CaseKeys, LAMBDA k : k \in keys)) |->
            LET k == SelectSeq(CaseKeys, LAMBDA kk : kk \in keys)[i]
            IN  <<k, Handler(k)>>])

CaseMappings == {CaseMapping(keys) : keys \in SUBSET {CaseKeys[i] : i \in 1..Len(CaseKeys)}}

\* the primitive values handed to the helpers
Primitives == {Num(1), Str(<<"_","0">>)}

onMatch == Handler(<<"o","n","M","a","t","c","h">>)

otherwise == Handler(<<"o","t","h","e","r","w","i","s","e">>)

(***************************************************************************)
(* State: one bundle, one value, one call of a helper on it                *)
(***************************************************************************)
VARIABLES
    variants,   \* the argument of make: undefined, or the array of tags
    adt,        \* the value handed to the helpers
    origin,     \* how adt was made
    pc,         \* "value": adt is to be made; "call": a helper is to be called;
                \* "curried": a curried matcher is held; "done"
    last,       \* the last call: the helper, its arguments and its effect
    heap        \* the objects that are referred to by identity, <<"ref", i>>
                \* being the i-th of them

vars == <<variants, adt, origin, pc, last, heap>>

NoCall == [op |-> "none", fn |-> Undefined, args |-> << >>, effect |-> Return(Undefined)]

Init ==
    /\ variants \in VariantChoices
    /\ adt = Undefined
    /\ origin = [kind |-> "none", tag |-> << >>, args |-> << >>]
    /\ pc = "value"
    /\ last = NoCall
    /\ heap = << >>

IsFn(f, kind) == f[1] = "function" /\ f[2] = kind

\* adt = Bundle.Tag(...args)
Construct ==
    /\ pc = "value"
    /\ \E name \in ConstructorNames, args \in ArgLists :
          LET f == make(variants, name)
          IN  /\ IsFn(f, "constructor")
              /\ adt' = construct(f[5], args)
              /\ origin' = [kind |-> "constructed", tag |-> f[5], args |-> args]
    /\ pc' = "call"
    /\ UNCHANGED <<heap, variants, last>>

\* adt = Bundle.Tag, the constructor itself
TakeConstructor ==
    /\ pc = "value"
    /\ \E name \in ConstructorNames :
          LET f == make(variants, name)
          IN  /\ IsFn(f, "constructor")
              /\ adt' = f
              /\ origin' = [kind |-> "constructor", tag |-> f[5], args |-> << >>]
    /\ pc' = "call"
    /\ UNCHANGED <<heap, variants, last>>

\* adt = { _tag: ..., ... }, a record not made by this bundle
WriteByHand ==
    /\ pc = "value"
    /\ \E tag \in {Str(t) : t \in Tags} \cup {Undefined}, ks \in HandKeyLists :
          /\ adt' = HandRecord(tag, ks)
          /\ origin' = [kind |-> "hand", tag |-> << >>, args |-> << >>]
    /\ pc' = "call"
    /\ UNCHANGED <<heap, variants, last>>

\* adt = null or undefined
TakeNullish ==
    /\ pc = "value"
    /\ adt' \in {Null, Undefined}
    /\ origin' = [kind |-> "nullish", tag |-> << >>, args |-> << >>]
    /\ pc' = "call"
    /\ UNCHANGED <<heap, variants, last>>

\* adt = a number or a string
TakePrimitive ==
    /\ pc = "value"
    /\ adt' \in Primitives
    /\ origin' = [kind |-> "primitive", tag |-> << >>, args |-> << >>]
    /\ pc' = "call"
    /\ UNCHANGED <<heap, variants, last>>

Called(op, fn, args, effect) ==
    /\ last' = [op |-> op, fn |-> fn, args |-> args, effect |-> effect]
    /\ UNCHANGED <<heap, variants, adt, origin>>

\* unwrap(adt), the function the module exports
CallUnwrap ==
    /\ pc = "call"
    /\ Called("unwrap", Fun("unwrap", <<"u","n","w","r","a","p">>, << >>, << >>), <<adt>>,
              Return(Arr(unwrap(adt))))
    /\ pc' = "done"

\* Bundle.unwrap(adt)
CallBundleUnwrap ==
    /\ pc = "call"
    /\ LET f == make(variants, <<"u","n","w","r","a","p">>)
       IN  \/ /\ IsFn(f, "result_unwrap")
              /\ Called("Bundle.unwrap", f, <<adt>>, result_unwrap(f[5], adt))
           \/ /\ IsFn(f, "unwrap")
              /\ Called("Bundle.unwrap", f, <<adt>>, Return(Arr(unwrap(adt))))
    /\ pc' = "done"

\* Bundle.isTag(adt)
CallGuard ==
    /\ pc = "call"
    /\ \E name \in HelperNames :
          LET f == make(variants, name)
          IN  /\ IsFn(f, "createGuard")
              /\ Called("is", f, <<adt>>, createGuard(f[5], adt))
    /\ pc' = "done"

\* Bundle.unwrapTag(adt)
CallDeconstructor ==
    /\ pc = "call"
    /\ \E name \in HelperNames :
          LET f == make(variants, name)
          IN  /\ IsFn(f, "createDeconstructor")
              /\ Called("unwrapTag", f, <<adt>>, createDeconstructor(f[5], adt))
    /\ pc' = "done"

\* Bundle.ifTag(adt, onMatch) and Bundle.ifTag(adt, onMatch, otherwise)
CallConditional ==
    /\ pc = "call"
    /\ \E name \in HelperNames, other \in {Undefined, otherwise} :
          LET f == make(variants, name)
          IN  /\ IsFn(f, "createConditionalDeconstructor")
              /\ Called("if", f, <<adt, onMatch, other>>,
                        createConditionalDeconstructor(f[5], adt, onMatch, other))
    /\ pc' = "done"

\* Bundle.match(adt, cases)
CallMatch ==
    /\ pc = "call"
    /\ \E cases \in CaseMappings :
          LET f == make(variants, <<"m","a","t","c","h">>)
          IN  /\ IsFn(f, "match")
              /\ Called("match", f, <<adt, cases>>, match(f[5], adt, cases))
    /\ pc' = "done"

\* Bundle.matchW(adt, cases)
CallMatchW ==
    /\ pc = "call"
    /\ \E cases \in CaseMappings :
          LET f == make(variants, <<"m","a","t","c","h","W">>)
          IN  /\ IsFn(f, "matchW")
              /\ Called("matchW", f, <<adt, cases>>, matchW(f[5], adt, cases))
    /\ pc' = "done"

\* Bundle.match(cases)
CurryMatch ==
    /\ pc = "call"
    /\ \E cases \in CaseMappings :
          LET f == make(variants, <<"m","a","t","c","h">>)
          IN  /\ IsFn(f, "match")
              /\ Called("match(cases)", f, <<cases>>, match(f[5], cases, Undefined))
    /\ pc' = "curried"

\* Bundle.matchW(cases)
CurryMatchW ==
    /\ pc = "call"
    /\ \E cases \in CaseMappings :
          LET f == make(variants, <<"m","a","t","c","h","W">>)
          IN  /\ IsFn(f, "matchW")
              /\ Called("matchW(cases)", f, <<cases>>, matchW(f[5], cases, Undefined))
    /\ pc' = "curried"

\* matcher(adt), matcher what Bundle.match(cases) or Bundle.matchW(cases) returned
CallCurried ==
    /\ pc = "curried"
    /\ last.effect.out[1] = "return"
    /\ LET matcher == last.effect.out[2]
       IN  Called(IF last.op = "match(cases)" THEN "match(cases)(adt)"
                  ELSE "matchW(cases)(adt)",
                  matcher, <<adt>>, ApplyCurried(matcher, adt))
    /\ pc' = "done"

Next ==
    \/ Construct
    \/ TakeConstructor
    \/ WriteByHand
    \/ TakeNullish
    \/ TakePrimitive
    \/ CallUnwrap
    \/ CallBundleUnwrap
    \/ CallGuard
    \/ CallDeconstructor
    \/ CallConditional
    \/ CallMatch
    \/ CallMatchW
    \/ CurryMatch
    \/ CurryMatchW
    \/ CallCurried

Spec == Init /\ [][Next]_vars

(***************************************************************************)
(* Reading the properties of a bundle: make(variants)[prop], then a call   *)
(* of what was read                                                        *)
(***************************************************************************)
T_Foo == <<"F","o","o">>

T_isSome == <<"i","s","S","o","m","e">>

S_unwrap == <<"u","n","w","r","a","p">>

S_match == <<"m","a","t","c","h">>

S_matchW == <<"m","a","t","c","h","W">>

\* make(), and make(tags) for lists of unique non-empty strings
ReadVariantChoices ==
    {Undefined,
     Arr(<<Str(T_Some), Str(T_None)>>),
     Arr(<<Str(T_Some), Str(T_isSome)>>),
     Arr(<<Str(T_isSome), Str(T_Some)>>),
     Arr(<<Str(S_match), Str(T_Some)>>)}

\* the tags whose names are read
ReadTags == {T_Some, T_None, T_Foo, <<"f","o","o">>, T_isSome, S_underscore, S_toString, <<"1">>}

\* the property names read from a bundle
ReadNames ==
    {S_unwrap, S_match, S_matchW, <<"i","s">>, <<"i","f">>, S_isPrototypeOf, S_valueOf}
        \cup ReadTags
        \cup UNION {PerTagNames(t) : t \in ReadTags}

\* the arguments what was read is called with
ReadArgLists ==
    {<< >>,
     <<Num(1)>>,
     <<construct(T_Some, <<Num(1)>>)>>,
     <<construct(T_Foo, <<Num(1), Num(2)>>), onMatch, otherwise>>,
     <<construct(T_Some, <<Num(2)>>), CaseMapping({T_Some, S_underscore})>>}

\* the object make(variants) returns; in dynamic mode, the target of the Proxy
Bundle(vs) ==
    IF ~Truthy(vs) THEN result(vs) ELSE AssignHelpers(result(vs), vs[2])

InitRead ==
    /\ variants \in ReadVariantChoices
    /\ adt = Undefined
    /\ origin = [kind |-> "none", tag |-> << >>, args |-> << >>]
    /\ pc = "read"
    /\ last = NoCall
    /\ heap = << >>

\* f = Bundle[prop]
ReadProperty ==
    /\ pc = "read"
    /\ \E prop \in ReadNames :
          /\ origin' = [kind |-> "read", tag |-> prop, args |-> << >>]
          /\ last' = [op |-> "get", fn |-> Undefined, args |-> <<Str(prop)>>,
                      effect |-> Return(make(variants, prop))]
    /\ pc' = "held"
    /\ UNCHANGED <<heap, variants, adt>>

\* f(...args), f what the read returned
CallRead ==
    /\ pc = "held"
    /\ typeof(last.effect.out[2]) = "function"
    /\ \E args \in ReadArgLists :
          \* a conditional deconstructor is given its onMatch
          /\ IsFn(last.effect.out[2], "createConditionalDeconstructor") => Len(args) = 3
          /\ last' = [op |-> "get()", fn |-> last.effect.out[2], args |-> args,
                      effect |-> Apply(last.effect.out[2], Bundle(variants), args)]
    /\ pc' = "applied"
    /\ UNCHANGED <<heap, variants, adt, origin>>

NextRead ==
    \/ ReadProperty
    \/ CallRead

SpecRead == InitRead /\ [][NextRead]_vars

(***************************************************************************)
(* stringify of objects that refer to one another                          *)
(***************************************************************************)
Map(pairs) == <<"map", pairs>>

Set(items) == <<"set", items>>

Ref(i) == <<"ref", i>>

\* what a property, an item, a Map value or a Set element of an object of a
\* heap of n objects is: a number or one of the objects
Slots(n) == {Num(1)} \cup {Ref(i) : i \in 1..n}

\* the objects of a heap of n objects: { a: x, self: y }, [x],
\* new Map([["k", x]]), new Set([x])
HeapObjects(n) ==
    {Obj(<< <<<<"a">>, x>>, <<<<"s","e","l","f">>, y>> >>) : x \in Slots(n), y \in Slots(n)}
        \cup {Arr(<<x>>) : x \in Slots(n)}
        \cup {Map(<< <<Str(<<"k">>), x>> >>) : x \in Slots(n)}
        \cup {Set(<<x>>) : x \in Slots(n)}

Heaps == UNION {[1..n -> HeapObjects(n)] : n \in 1..MaxHeap}

InitStringify ==
    /\ variants = Undefined
    /\ heap \in Heaps
    /\ adt = Ref(1)
    /\ origin = [kind |-> "heap", tag |-> << >>, args |-> << >>]
    /\ pc = "stringify"
    /\ last = NoCall

\* stringify(adt)
Stringify ==
    /\ pc = "stringify"
    /\ last' = [op |-> "stringify", fn |-> Fun("stringify", <<"s","t","r","i","n","g","i","f","y">>, << >>, << >>),
                args |-> <<adt>>,
                effect |-> LET text == serialize(heap, adt, << >>)
                           IN  IF Raised(text)
                               THEN Throw(<<"R","a","n","g","e","E","r","r","o","r">>, <<"I","n","v","a","l","i","d"," ","t","i","m","e"," ","v","a","l","u","e">>)
                               ELSE Return(Str(text))]
    /\ pc' = "stringified"
    /\ UNCHANGED <<heap, variants, adt, origin>>

NextStringify == Stringify

SpecStringify == InitStringify /\ [][NextStringify]_vars

(***************************************************************************)
(* stringify of values of every kind                                       *)
(***************************************************************************)
Bool(b) == <<"boolean", b>>

BigInt(n) == <<"bigint", n>>

SymbolValue(description) == <<"symbol", description>>

NotANumber == <<"number", 0, "NaN">>

PositiveInfinity == <<"number", 0, "Infinity">>

Date(ms) == <<"date", ms>>

InvalidDate == <<"date", 0, "NaN">>

RegExp(source, flags) == <<"regexp", source, flags>>

\* the values that are not records
RenderAtoms ==
    {Num(42), Num(0), Num(-7), NotANumber, PositiveInfinity,
     Str(<<"x">>), Str(<<"h","e","l","l","o">>), Str(<< >>), Bool(TRUE), Bool(FALSE), Null, Undefined,
     BigInt(123), BigInt(0), SymbolValue(<<"t","e","s","t">>),
     Date(0), Date(3723004), InvalidDate, RegExp(<<"t","e","s","t">>, <<"g">>),
     Handler(<<"n","a","m","e","d","F","u","n","c","t","i","o","n">>), Handler(<< >>)}

\* the keys of the records: bare identifiers, other strings, a symbol
RenderStringKeys == { <<"a","b","c">>, <<"$","v","a","l","i","d">>, <<"_","k","e","y","1","2","3">>, <<"n","o","t","-","v","a","l","i","d">>, <<"a"," ","b">> }

RenderKeys == RenderStringKeys \cup {Sym(<<"t","e","s","t">>)}

\* the key lists of a record, in the order the properties are enumerated:
\* no key twice, the symbol after the strings
RenderKeyLists ==
    {ks \in UNION {[1..n -> RenderKeys] : n \in 0..MaxHandKeys} :
        /\ \A i, j \in 1..Len(ks) : i # j => ks[i] # ks[j]
        /\ \A i \in 1..Len(ks) : IsSymbolKey(ks[i]) => i = Len(ks)}

\* { [ks[1]]: 1, [ks[2]]: 2, ... }
RenderRecord(ks) == Obj([i \in 1..Len(ks) |-> <<ks[i], Num(i)>>])

\* what an array, a Map and a Set of the model hold
RenderItems == {Num(1), Str(<<"k","e","y">>), Bool(TRUE), InvalidDate}

RenderItemLists == UNION {[1..n -> RenderItems] : n \in 0..MaxArgs}

RenderValues ==
    RenderAtoms
        \cup {RenderRecord(ks) : ks \in RenderKeyLists}
        \cup {Arr(items) : items \in RenderItemLists}
        \cup {Set(items) : items \in {is \in RenderItemLists :
                                         \A i, j \in 1..Len(is) : i # j => is[i] # is[j]}}
        \cup {Map([i \in 1..Len(items) |-> <<items[i], Num(i)>>]) :
                 items \in {is \in RenderItemLists :
                               \A i, j \in 1..Len(is) : i # j => is[i] # is[j]}}

InitRender ==
    /\ variants = Undefined
    /\ heap = << >>
    /\ adt \in RenderValues
    /\ origin = [kind |-> "value", tag |-> << >>, args |-> << >>]
    /\ pc = "stringify"
    /\ last = NoCall

SpecRender == InitRender /\ [][NextStringify]_vars

(***************************************************************************)
(* pipe                                                                    *)
(***************************************************************************)
S_pipe == <<"p","i","p","e">>

\* PipeableProto, the object that carries pipe
PipeableProto == << <<S_pipe, Fun("method", S_pipe, << >>, << >>)>> >>

\* Object.create(PipeableProto), with the properties it was given afterwards
Pipeable(entries) == <<"object", entries, "PipeableProto">>

\* x.pipe: the own properties of x, PipeableProto where x was made from it,
\* and Object.prototype
GetPipe(x) ==
    IF HasOwn(x, S_pipe) THEN OwnValue(x, S_pipe)
    ELSE IF typeof(x) = "object" /\ Len(x) = 3 THEN OwnValue(Obj(PipeableProto), S_pipe)
    ELSE GetProp(x, S_pipe)

\* f(e), e being the effect of the expression that is the argument
Then(f, e) ==
    [calls |-> e.calls \o << <<f, <<e.out[2]>> >> >>,
     out   |-> Invoke(f, Undefined, <<e.out[2]>>).out]

RECURSIVE PipeLoop(_, _, _)
\* for (const f of fs) result = f(result), from the i-th function on
PipeLoop(res, fs, i) ==
    IF i > Len(fs) THEN res
    ELSE PipeLoop(Then(fs[i], res), fs, i + 1)

\* PipeableProto.pipe(...fs) with `this` the receiver
pipe(this, fs) ==
    LET x == Return(this)
    IN  CASE Len(fs) = 0 -> x
          [] Len(fs) = 1 -> Then(fs[1], x)
          [] Len(fs) = 2 -> Then(fs[2], Then(fs[1], x))
          [] Len(fs) = 3 -> Then(fs[3], Then(fs[2], Then(fs[1], x)))
          [] Len(fs) = 4 -> Then(fs[4], Then(fs[3], Then(fs[2], Then(fs[1], x))))
          [] Len(fs) = 5 ->
                Then(fs[5], Then(fs[4], Then(fs[3], Then(fs[2], Then(fs[1], x)))))
          [] Len(fs) = 6 ->
                Then(fs[6],
                     Then(fs[5], Then(fs[4], Then(fs[3], Then(fs[2], Then(fs[1], x))))))
          [] Len(fs) = 7 ->
                Then(fs[7], Then(fs[6],
                     Then(fs[5], Then(fs[4], Then(fs[3], Then(fs[2], Then(fs[1], x)))))))
          [] Len(fs) = 8 ->
                Then(fs[8], Then(fs[7], Then(fs[6],
                     Then(fs[5], Then(fs[4], Then(fs[3], Then(fs[2], Then(fs[1], x))))))))
          [] Len(fs) = 9 ->
                Then(fs[9], Then(fs[8], Then(fs[7], Then(fs[6],
                     Then(fs[5], Then(fs[4], Then(fs[3], Then(fs[2], Then(fs[1], x)))))))))
          [] OTHER -> PipeLoop(x, fs, 1)

\* the functions handed to pipe: f everywhere, or g at one place among them
PipeLists ==
    {[i \in 1..n |-> IF i = k THEN Handler(<<"g">>) ELSE Handler(<<"f">>)] :
        n \in 0..MaxPipe, k \in 0..MaxPipe}

\* the receivers: Some(1), None(), the constructor Some, and objects made
\* from PipeableProto
InitPipe ==
    /\ variants \in {Undefined, Arr(<<Str(T_Some), Str(T_None)>>)}
    /\ \/ \E args \in {<< >>, <<Num(1)>>} :
             /\ adt = construct(make(variants, T_Some)[5], args)
             /\ origin = [kind |-> "constructed", tag |-> T_Some, args |-> args]
       \/ /\ adt = make(variants, T_Some)
          /\ origin = [kind |-> "constructor", tag |-> T_Some, args |-> << >>]
       \/ \E entries \in {<< >>, << <<<<"v","a","l","u","e">>, Num(42)>> >>} :
             /\ adt = Pipeable(entries)
             /\ origin = [kind |-> "pipeable", tag |-> << >>, args |-> << >>]
    /\ pc = "pipe"
    /\ last = NoCall
    /\ heap = << >>

\* adt.pipe(...fs)
Pipe ==
    /\ pc = "pipe"
    /\ \E fs \in PipeLists :
          last' = [op |-> "pipe", fn |-> GetPipe(adt), args |-> fs,
                   effect |-> IF typeof(GetPipe(adt)) = "function"
                              THEN pipe(adt, fs)
                              ELSE Throw(<<"T","y","p","e","E","r","r","o","r">>, <<"a","d","t",".","p","i","p","e"," ","i","s"," ","n","o","t"," ","a"," ","f","u","n","c","t","i","o","n">>)]
    /\ pc' = "piped"
    /\ UNCHANGED <<heap, variants, adt, origin>>

NextPipe == Pipe

SpecPipe == InitPipe /\ [][NextPipe]_vars

(***************************************************************************)
(* Reads of one bundle, one after another.  A function is an object: the   *)
(* functions the bundle was made with, and every function a read creates,  *)
(* are cells of the heap, and a read returns a reference to a cell.        *)
(***************************************************************************)
\* the properties read from the bundle
IdentityNames ==
    { <<"i","s","S","o","m","e">>, <<"i","f","S","o","m","e">>, <<"u","n","w","r","a","p","S","o","m","e">>, T_Some, S_unwrap, S_match, S_toString }

\* the object make(variants) builds: result, with the helpers of the declared
\* tags in precomputed mode; in dynamic mode the target of the Proxy
Target(vs) ==
    IF Truthy(vs) THEN AssignHelpers(result(vs), vs[2]) ELSE result(vs)

\* the cell of the own property key of the object make built
CellOf(target, key) ==
    Ref(CHOOSE i \in 1..Len(OwnEntries(target)) : OwnEntries(target)[i][1] = key)

\* the functions make(variants) created, one cell each, in property order
InitIdentity ==
    /\ variants \in VariantChoices
    /\ heap = [i \in 1..Len(OwnEntries(Target(variants))) |-> OwnEntries(Target(variants))[i][2]]
    /\ adt = Undefined
    /\ origin = [kind |-> "none", tag |-> << >>, args |-> << >>]
    /\ pc = "reading"
    /\ last = [op |-> "reads", fn |-> Undefined, args |-> << >>,
               effect |-> Return(Arr(<< >>))]

\* Bundle[prop].  last.args is the names read so far and last.effect returns
\* what each read returned.  A property the object has, own or inherited, is
\* returned as it is; in dynamic mode the get trap creates a function for
\* every other name.
ReadIdentity ==
    /\ pc = "reading"
    /\ Len(last.args) < MaxReads
    /\ \E prop \in IdentityNames :
          LET target == Target(variants)
              made   == ~Truthy(variants) /\ ~HasProp(target, prop)
              value  == IF HasOwn(target, prop) THEN CellOf(target, prop)
                        ELSE IF made THEN Ref(Len(heap) + 1)
                        ELSE GetProp(target, prop)
          IN  /\ heap' = IF made THEN Append(heap, get(target, prop)) ELSE heap
              /\ last' = [last EXCEPT
                            !.args = Append(@, prop),
                            !.effect = Return(Arr(Append(@.out[2][2], value)))]
    /\ UNCHANGED <<variants, adt, origin, pc>>

NextIdentity == ReadIdentity

SpecIdentity == InitIdentity /\ [][NextIdentity]_vars

(***************************************************************************)
(* Properties                                                              *)
(***************************************************************************)
\* the discriminant of a value: its own _tag, if it has one
Discriminant(v) == IF HasOwn(v, S_tag) THEN OwnValue(v, S_tag) ELSE Undefined

Returned(v) == last.effect.out = <<"return", v>>

Threw == last.effect.out[1] = "throw"

DirectMatch == pc = "done" /\ last.op \in {"match", "matchW"}

CurriedMatch == pc = "done" /\ last.op \in {"match(cases)(adt)", "matchW(cases)(adt)"}

\* the case mapping of the last call of a matcher
CasesOfCall == IF DirectMatch THEN last.args[2] ELSE last.fn[5][2]

\* a call of a matcher that got as far as dispatch: dynamic mode, or a
\* non-null value whose discriminant is declared
Dispatched ==
    /\ DirectMatch \/ CurriedMatch
    /\ \/ variants = Undefined
       \/ /\ ~IsNullish(adt)
          /\ \E i \in 1..Len(variants[2]) : variants[2][i] = Discriminant(adt)

\* C1: round trip.  For a value made by the constructor of tag T from the
\* arguments a0..ak, the per-tag deconstructor of T, the bundle's unwrap and
\* the exported unwrap each return exactly [a0..ak], in both modes.
C1_RoundTrip ==
    (/\ pc = "done"
     /\ origin.kind = "constructed"
     /\ \/ last.op \in {"unwrap", "Bundle.unwrap"}
        \/ last.op = "unwrapTag" /\ last.fn[5] = origin.tag)
    => Returned(Arr(origin.args))

C1_Witness ==
    /\ pc = "done"
    /\ variants # Undefined
    /\ origin.kind = "constructed"
    /\ origin.args = <<Num(2), Num(1)>>
    /\ last.op = "unwrapTag"
    /\ last.fn[5] = origin.tag
    /\ Returned(Arr(<<Num(2), Num(1)>>))

\* C2: the constructor of tag T called with a0..a(n-1) returns a plain
\* record whose _tag is T, whose _i is ai for every i < n, and that has no
\* other own enumerable property; the record has exactly n + 1 properties
\* whatever the arguments are.
C2_Constructed ==
    origin.kind = "constructed"
    => /\ typeof(adt) = "object"
       /\ HasOwn(adt, S_tag)
       /\ OwnValue(adt, S_tag) = Str(origin.tag)
       /\ \A i \in 0..(Len(origin.args) - 1) :
             /\ HasOwn(adt, S_underscore \o NumberToString(i))
             /\ OwnValue(adt, S_underscore \o NumberToString(i)) = origin.args[i + 1]
       /\ Len(OwnEntries(adt)) = Len(origin.args) + 1
       /\ \A i, j \in 1..Len(OwnEntries(adt)) :
             i # j => OwnEntries(adt)[i][1] # OwnEntries(adt)[j][1]

C2_Witness ==
    /\ origin.kind = "constructed"
    /\ variants = Undefined
    /\ origin.tag = T_Leaf
    /\ origin.args = <<Undefined, Num(1)>>
    /\ adt = Obj(<< <<S_tag, Str(T_Leaf)>>, <<<<"_","0">>, Undefined>>, <<<<"_","1">>, Num(1)>> >>)

\* C3: the constructor of tag T, not called, is a zero-field value of tag
\* T for every helper: its _tag is T, isT is true of it, unwrap, the
\* bundle's unwrap and unwrapT return [], ifT calls onMatch with no
\* argument, and a matcher given a case for T calls it with no argument.
C3_BareConstructor ==
    (pc = "done" /\ origin.kind = "constructor")
    => /\ Discriminant(adt) = Str(origin.tag)
       /\ last.op \in {"unwrap", "Bundle.unwrap"} => Returned(Arr(<< >>))
       /\ (last.op = "unwrapTag" /\ last.fn[5] = origin.tag) => Returned(Arr(<< >>))
       /\ (last.op = "is" /\ last.fn[5] = origin.tag) => Returned(<<"boolean", TRUE>>)
       /\ (last.op = "if" /\ last.fn[5] = origin.tag)
             => last.effect = Invoke(onMatch, Undefined, << >>)
       /\ ((DirectMatch \/ CurriedMatch) /\ HasOwn(CasesOfCall, origin.tag))
             => last.effect = Invoke(Handler(origin.tag), CasesOfCall, << >>)

C3_Witness ==
    /\ pc = "done"
    /\ origin.kind = "constructor"
    /\ origin.tag = T_None
    /\ variants # Undefined
    /\ last.op = "match"
    /\ last.effect.calls = << <<Handler(T_None), << >> >> >>

\* C4: for a value with a discriminant, isT is true exactly when the
\* discriminant is T, whoever made the value (this bundle or a hand).
C4_Guard ==
    (pc = "done" /\ last.op = "is" /\ HasOwn(adt, S_tag))
    => Returned(<<"boolean", Discriminant(adt) = Str(last.fn[5])>>)

C4_Witness ==
    /\ pc = "done"
    /\ last.op = "is"
    /\ origin.kind = "hand"
    /\ variants # Undefined
    /\ Discriminant(adt) = Str(T_Some)
    /\ last.fn[5] = T_Some
    /\ Returned(<<"boolean", TRUE>>)

\* C5: when a matcher dispatches a non-null value and the case mapping
\* has a case of its own under the value's discriminant, that case is called
\* once with the value's fields as arguments, in field order, nothing else is
\* called, and what it returns is returned; a catch-all does not change that.
C5_SpecificCase ==
    (/\ Dispatched
     /\ ~IsNullish(adt)
     /\ HasOwn(CasesOfCall, ToPropertyKey(Discriminant(adt))))
    => LET arm == Handler(ToPropertyKey(Discriminant(adt)))
       IN  /\ last.effect.calls = << <<arm, unwrap(adt)>> >>
           /\ Returned(<<"result", arm[3], unwrap(adt)>>)
           /\ origin.kind = "constructed" => last.effect.calls[1][2] = origin.args

C5_Witness ==
    /\ DirectMatch
    /\ variants # Undefined
    /\ origin.kind = "constructed"
    /\ origin.args = <<Num(1), Num(2)>>
    /\ HasOwn(CasesOfCall, S_underscore)
    /\ last.effect.calls = << <<Handler(T_Some), <<Num(1), Num(2)>> >> >>

\* the NoCaseMatched error for a value
NoCaseMatched(v) ==
    <<"throw", <<"E","r","r","o","r">>,
      <<"N","o"," ","c","a","s","e"," ","f","o","u","n","d"," ","f","o","r"," ",Backquote>> \o stringify(v)
          \o <<Backquote,"."," ","C","o","n","s","i","d","e","r"," ","a","d","d","i","n","g"," ","a"," ","c","a","t","c","h","-","a","l","l"," ","c","a","s","e"," ","(",Backquote,"_",Backquote,")"," ","i","f"," ","n","e","e","d","e","d">>>>

\* the case mapping of the call has no case of its own for the value
NoOwnCase ==
    \/ IsNullish(adt)
    \/ ~HasOwn(CasesOfCall, ToPropertyKey(Discriminant(adt)))

\* C6 (as claimed): when a matcher dispatches a value, the case mapping has
\* no case for the value's discriminant and has a catch-all, the catch-all is
\* called with the value itself as its one argument and what it returns is
\* returned.
C6_CatchAllGetsValue ==
    (Dispatched /\ NoOwnCase /\ HasOwn(CasesOfCall, S_underscore))
    => last.effect = Invoke(Handler(S_underscore), CasesOfCall, <<adt>>)

\* C7 (as claimed): a matcher raises NoCaseMatched, with the message "No
\* case found for <value>. Consider adding a catch-all case (_) if needed",
\* exactly when dispatch finds no case for the value's discriminant and no
\* catch-all; it is an Error and not a TypeError, and no other helper raises it.
C7_NoCaseMatchedExactly ==
    /\ (DirectMatch \/ CurriedMatch)
          => (last.effect.out = NoCaseMatched(adt)
                 <=> (Dispatched /\ NoOwnCase /\ ~HasOwn(CasesOfCall, S_underscore)))
    /\ (Threw /\ ~(DirectMatch \/ CurriedMatch)) => last.effect.out[2] # <<"E","r","r","o","r">>

\* C8 (as claimed): a matcher called with a case mapping that has a
\* catch-all raises no error, whatever the value and the mode.
C8_CatchAllNeverThrows ==
    ((DirectMatch \/ CurriedMatch) /\ HasOwn(CasesOfCall, S_underscore)) => ~Threw

\* C8 (amended): a matcher called with a case mapping that has a catch-all
\* raises no error for any value in dynamic mode, and for any non-null value
\* whose discriminant is declared in precomputed mode.
C8_CatchAllNeverThrowsDispatched ==
    (Dispatched /\ HasOwn(CasesOfCall, S_underscore)) => ~Threw

C8_Witness ==
    /\ CurriedMatch
    /\ variants # Undefined
    /\ Discriminant(adt) = Str(T_None)
    /\ CasesOfCall = CaseMapping({S_underscore})
    /\ last.effect = Invoke(Handler(S_underscore), CasesOfCall, <<adt>>)

\* C9: currying law.  What matcher(cases)(adt) does (the functions it calls,
\* their arguments, what it returns, the error it raises and its message) is
\* what matcher(adt, cases) does, for match and for matchW, in both modes; and
\* matcher(cases) itself returns a function, calls nothing and raises nothing.
C9_Currying ==
    /\ (pc = "done" /\ last.op = "match(cases)(adt)")
          => last.effect = match(variants, adt, CasesOfCall)
    /\ (pc = "done" /\ last.op = "matchW(cases)(adt)")
          => last.effect = matchW(variants, adt, CasesOfCall)
    /\ pc = "curried"
          => /\ last.effect.calls = << >>
             /\ last.effect.out[1] = "return"
             /\ typeof(last.effect.out[2]) = "function"

C9_Witness ==
    /\ pc = "done"
    /\ last.op = "match(cases)(adt)"
    /\ variants # Undefined
    /\ Discriminant(adt) = Str(T_Leaf)
    /\ HasOwn(CasesOfCall, S_underscore)
    /\ Threw
    /\ last.effect.out[2] = <<"T","y","p","e","E","r","r","o","r">>

\* C10: match and matchW of a bundle do the same: called on the same value
\* with the same case mapping, directly or curried, they call the same
\* functions with the same arguments and return the same or raise the same.
C10_MatchW ==
    /\ (pc = "done" /\ last.op = "matchW") => last.effect = match(variants, adt, CasesOfCall)
    /\ (pc = "done" /\ last.op = "match") => last.effect = matchW(variants, adt, CasesOfCall)
    /\ (pc = "done" /\ last.op = "matchW(cases)(adt)")
          => last.effect = IF Truthy(variants)
                           THEN match_curried_variants(variants, CasesOfCall, adt)
                           ELSE match_curried(CasesOfCall, adt)
    /\ (pc = "done" /\ last.op = "match(cases)(adt)")
          => last.effect = IF Truthy(variants)
                           THEN matchW_curried_variants(variants, CasesOfCall, adt)
                           ELSE matchW_curried(CasesOfCall, adt)

C10_Witness ==
    /\ pc = "done"
    /\ last.op = "matchW"
    /\ variants # Undefined
    /\ origin.kind = "constructed"
    /\ origin.args = <<Num(1), Num(2)>>
    /\ last.effect.calls = << <<Handler(T_Some), <<Num(1), Num(2)>> >> >>

\* a call of a bundle-wide helper on a value: unwrap, match, matchW, or a
\* curried matcher applied
BundleWideCall ==
    pc = "done" /\ (last.op = "Bundle.unwrap" \/ DirectMatch \/ CurriedMatch)

\* the value is one precomputed mode rejects: null, undefined, or a value
\* whose discriminant is not a declared tag
Undeclared ==
    \/ IsNullish(adt)
    \/ ~\E i \in 1..Len(variants[2]) : variants[2][i] = Discriminant(adt)

RECURSIVE DeclaredList(_)
\* `T1(...)`/`T2(...)`/... for the tags T1, T2, ... in the order given
DeclaredList(tags) ==
    IF tags = << >> THEN << >>
    ELSE <<Backquote>> \o tags[1][2] \o <<"(",".",".",".",")">> \o <<Backquote>>
            \o (IF Len(tags) = 1 THEN << >> ELSE <<"/">> \o DeclaredList(Tail(tags)))

\* the InvalidVariant error: a TypeError whose message is "Expected <what>,
\* but got <the value, stringified>"
InvalidVariant(what, v) ==
    <<"throw", <<"T","y","p","e","E","r","r","o","r">>,
      <<"E","x","p","e","c","t","e","d"," ">> \o what \o <<","," ","b","u","t"," ","g","o","t"," ">> \o <<Backquote>> \o stringify(v) \o <<Backquote>>>>

\* C11: in precomputed mode the bundle's unwrap, match and matchW, direct
\* or curried, raise InvalidVariant and call nothing for every value that is
\* null, undefined or of an undeclared discriminant, and the message lists the
\* declared tags as `T(...)` in declared order, separated by "/"; in dynamic
\* mode they raise no TypeError for any value.
C11_InvalidVariant ==
    BundleWideCall
    => /\ (variants # Undefined /\ Undeclared)
             => /\ last.effect.calls = << >>
                /\ last.effect.out = InvalidVariant(DeclaredList(variants[2]), adt)
       /\ variants = Undefined
             => ~(Threw /\ last.effect.out[2] = <<"T","y","p","e","E","r","r","o","r">>)

C11_Witness ==
    /\ pc = "done"
    /\ last.op = "Bundle.unwrap"
    /\ variants = Arr(<<Str(T_Some), Str(T_None)>>)
    /\ adt = Obj(<< <<S_tag, Str(T_Leaf)>>, <<<<"_","0">>, Num(1)>> >>)
    /\ last.effect.out = <<"throw", <<"T","y","p","e","E","r","r","o","r">>,
                           <<"E","x","p","e","c","t","e","d"," ",Backquote,"S","o","m","e","(",".",".",".",")",Backquote,"/",Backquote,"N","o","n","e","(",".",".",".",")",Backquote,","," ","b","u","t"," ","g","o","t"," ",Backquote,"{"," ","_","t","a","g",":"," ","\"","L","e","a","f","\"",","," ","_","0",":"," ","1"," ","}",Backquote>>>>

\* C12: unwrapT(v) raises InvalidVariant, naming `T(...)` and the
\* stringified v, exactly when v is null or undefined or v's discriminant is
\* not T; otherwise it returns the fields of v.  The declared tags play no part.
C12_Deconstructor ==
    (pc = "done" /\ last.op = "unwrapTag")
    => IF IsNullish(adt) \/ Discriminant(adt) # Str(last.fn[5])
       THEN /\ last.effect.calls = << >>
            /\ last.effect.out
                   = InvalidVariant(<<Backquote>> \o last.fn[5] \o <<"(",".",".",".",")">> \o <<Backquote>>, adt)
       ELSE /\ Returned(Arr(unwrap(adt)))
            /\ origin.kind = "constructed" => Returned(Arr(origin.args))

C12_Witness ==
    /\ pc = "done"
    /\ last.op = "unwrapTag"
    /\ last.fn[5] = T_Some
    /\ variants # Undefined
    /\ adt = Obj(<< <<S_tag, Str(T_None)>>, <<<<"_","0">>, Num(2)>> >>)
    /\ last.effect.out = <<"throw", <<"T","y","p","e","E","r","r","o","r">>,
                           <<"E","x","p","e","c","t","e","d"," ",Backquote,"S","o","m","e","(",".",".",".",")",Backquote,","," ","b","u","t"," ","g","o","t"," ",Backquote,"{"," ","_","t","a","g",":"," ","\"","N","o","n","e","\"",","," ","_","0",":"," ","2"," ","}",Backquote>>>>

\* C13: on a value with a discriminant, ifT calls onMatch with the
\* value's fields and returns what it returns when the discriminant is T;
\* otherwise it calls otherwise, if given, with the value itself and returns
\* what it returns; otherwise it calls nothing and returns undefined.  The
\* declared tags play no part.
C13_Conditional ==
    (pc = "done" /\ last.op = "if" /\ HasOwn(adt, S_tag))
    => IF Discriminant(adt) = Str(last.fn[5])
       THEN /\ last.effect.calls = << <<onMatch, unwrap(adt)>> >>
            /\ Returned(<<"result", <<"o","n","M","a","t","c","h">>, unwrap(adt)>>)
       ELSE IF last.args[3] # Undefined
       THEN /\ last.effect.calls = << <<otherwise, <<adt>> >> >>
            /\ Returned(<<"result", <<"o","t","h","e","r","w","i","s","e">>, <<adt>> >>)
       ELSE /\ last.effect.calls = << >>
            /\ Returned(Undefined)

C13_Witness ==
    /\ pc = "done"
    /\ last.op = "if"
    /\ last.fn[5] = T_Some
    /\ variants # Undefined
    /\ adt = Obj(<< <<S_tag, Str(T_Leaf)>>, <<<<"_","0">>, Num(1)>>, <<<<"_","1">>, Num(2)>> >>)
    /\ last.args[3] = otherwise
    /\ last.effect.calls = << <<otherwise, <<adt>> >> >>

\* C14 (as claimed): isT raises no error for any input, and returns false
\* for null, undefined, a primitive and a record without a discriminant.
C14_GuardNeverThrows ==
    (pc = "done" /\ last.op = "is")
    => /\ ~Threw
       /\ ~HasOwn(adt, S_tag) => Returned(<<"boolean", FALSE>>)

\* C15 (as claimed): ifT raises no error of its own for any value, null
\* and undefined included: for a value that does not carry the discriminant T
\* it returns undefined when otherwise is not given, and calls otherwise with
\* the value and returns what it returns when it is given.
C15_ConditionalNeverThrows ==
    (pc = "done" /\ last.op = "if")
    => /\ ~Threw
       /\ (Discriminant(adt) # Str(last.fn[5]) /\ last.args[3] = Undefined)
             => Returned(Undefined)
       /\ (Discriminant(adt) # Str(last.fn[5]) /\ last.args[3] # Undefined)
             => /\ last.effect.calls = << <<otherwise, <<adt>> >> >>
                /\ Returned(<<"result", <<"o","t","h","e","r","w","i","s","e">>, <<adt>> >>)

\* a property of a bundle has been read (and perhaps called)
Read == pc \in {"held", "applied"}

\* the property name read, and what the read returned
PropRead == origin.tag

ValueRead == IF pc = "held" THEN last.effect.out[2] ELSE last.fn

\* P is prefix followed by a character that is its own upper-case form
Capitalized(P, prefix) ==
    /\ Len(P) > Len(prefix)
    /\ SubSeq(P, 1, Len(prefix)) = prefix
    /\ P[Len(prefix) + 1] = toUpperCase(P[Len(prefix) + 1])

\* the tag of a helper name: the name without its first n characters
TagAfter(P, n) == SubSeq(P, n + 1, Len(P))

BaseNames == {S_unwrap, S_match, S_matchW}

IsGuardFor(f, T) == IsFn(f, "createGuard") /\ f[5] = T

IsConditionalFor(f, T) == IsFn(f, "createConditionalDeconstructor") /\ f[5] = T

IsDeconstructorFor(f, T) == IsFn(f, "createDeconstructor") /\ f[5] = T

IsConstructorFor(f, T) ==
    /\ IsFn(f, "constructor")
    /\ f[5] = T
    /\ HasOwn(f, S_tag)
    /\ OwnValue(f, S_tag) = Str(T)

\* C16 (as claimed): in dynamic mode a property P that is not a base name
\* reads as a guard for P without "is" when P is "is" + a character that is
\* its own upper-case form + anything; else as a conditional deconstructor
\* when P is "if" + the like; else as a deconstructor for P without "unwrap"
\* when P is "unwrap" + the like; and as no guard when P does not have the
\* form ("is", "isfoo").  A guard so read tells the discriminant of a record.
C16_Classification ==
    (Read /\ variants = Undefined /\ PropRead \notin BaseNames)
    => LET P == PropRead
           f == ValueRead
       IN  /\ Capitalized(P, <<"i","s">>) => IsGuardFor(f, TagAfter(P, 2))
           /\ (~Capitalized(P, <<"i","s">>) /\ Capitalized(P, <<"i","f">>))
                 => IsConditionalFor(f, TagAfter(P, 2))
           /\ (~Capitalized(P, <<"i","s">>) /\ ~Capitalized(P, <<"i","f">>) /\ Capitalized(P, <<"u","n","w","r","a","p">>))
                 => IsDeconstructorFor(f, TagAfter(P, 6))
           /\ ~Capitalized(P, <<"i","s">>) => ~IsFn(f, "createGuard")
           /\ (pc = "applied" /\ Capitalized(P, <<"i","s">>) /\ Len(last.args) >= 1
                  /\ typeof(last.args[1]) = "object")
                 => Returned(<<"boolean", Discriminant(last.args[1]) = Str(TagAfter(P, 2))>>)

\* C17 (as claimed): in dynamic mode a property P other than unwrap,
\* match and matchW that has none of the three helper forms reads as the
\* constructor of the variant P (its _tag is P, and called it builds a record
\* whose discriminant is P); unwrap, match and matchW read as the bundle-wide
\* helpers.
C17_Constructor ==
    (Read /\ variants = Undefined)
    => LET P == PropRead
           f == ValueRead
       IN  /\ (/\ P \notin BaseNames
               /\ ~Capitalized(P, <<"i","s">>)
               /\ ~Capitalized(P, <<"i","f">>)
               /\ ~Capitalized(P, <<"u","n","w","r","a","p">>))
                 => /\ IsConstructorFor(f, P)
                    /\ pc = "applied"
                          => /\ last.effect.out[1] = "return"
                             /\ Discriminant(last.effect.out[2]) = Str(P)
           /\ P = S_unwrap => IsFn(f, "unwrap")
           /\ P = S_match => IsFn(f, "match")
           /\ P = S_matchW => IsFn(f, "matchW")

\* T is one of the declared tags
Declared(T) == \E i \in 1..Len(variants[2]) : variants[2][i] = Str(T)

\* C18 (as claimed): in the object make(tags) returns, for every declared
\* tag T, key T holds the constructor for T, "is" + T the guard for T,
\* "unwrap" + T the deconstructor for T and "if" + T the conditional
\* deconstructor for T, and keys unwrap, match and matchW hold the bundle-wide
\* helpers.
C18_EagerBundle ==
    (Read /\ variants # Undefined)
    => LET P == PropRead
           f == ValueRead
       IN  /\ Declared(P) => IsConstructorFor(f, P)
           /\ (Len(P) > 2 /\ SubSeq(P, 1, 2) = <<"i","s">> /\ Declared(TagAfter(P, 2)))
                 => IsGuardFor(f, TagAfter(P, 2))
           /\ (Len(P) > 2 /\ SubSeq(P, 1, 2) = <<"i","f">> /\ Declared(TagAfter(P, 2)))
                 => IsConditionalFor(f, TagAfter(P, 2))
           /\ (Len(P) > 6 /\ SubSeq(P, 1, 6) = S_unwrap /\ Declared(TagAfter(P, 6)))
                 => IsDeconstructorFor(f, TagAfter(P, 6))
           /\ P = S_unwrap => (IsFn(f, "result_unwrap") /\ f[5] = variants)
           /\ P = S_match => (IsFn(f, "match") /\ f[5] = variants)
           /\ P = S_matchW => (IsFn(f, "matchW") /\ f[5] = variants)

\* key is an underscore followed by a non-negative integer
IsUnderscoreNat(key) ==
    /\ Len(key) >= 2
    /\ key[1] = "_"
    /\ \A i \in 2..Len(key) : IsDigit(key[i])

\* the own enumerable entries of v under such keys
FieldEntries(v) == SelectSeq(entriesOf(v), LAMBDA e : IsUnderscoreNat(e[1]))

FieldIndex(e) == DigitsVal(SubSeq(e[1], 2, Len(e[1])))

RECURSIVE AscendingByIndex(_)
\* the values of a set of entries, by ascending index
AscendingByIndex(es) ==
    IF es = {} THEN << >>
    ELSE LET least == CHOOSE e \in es : \A o \in es : FieldIndex(e) <= FieldIndex(o)
         IN  <<least[2]>> \o AscendingByIndex(es \ {least})

\* C19 (as claimed): unwrap returns the values of the own enumerable keys
\* that are an underscore followed by a non-negative integer, by ascending
\* numeric key, and nothing else: _tag, the key "_" alone, a negative suffix
\* and a named field are ignored, and no gap is filled in.
C19_FieldExtraction ==
    (pc = "done" /\ last.op = "unwrap")
    => Returned(Arr(AscendingByIndex({FieldEntries(adt)[i] : i \in 1..Len(FieldEntries(adt))})))

\* the objects an object of the heap refers to directly
RefsOf(i) ==
    LET o == heap[i]
        slots == IF typeof(o) = "object" THEN {o[2][k][2] : k \in 1..Len(o[2])}
                 ELSE IF typeof(o) = "map" THEN {o[2][k][2] : k \in 1..Len(o[2])}
                 ELSE {o[2][k] : k \in 1..Len(o[2])}
    IN  {s[2] : s \in {s \in slots : s[1] = "ref"}}

RECURSIVE ReachedIn(_, _)
\* the objects reached from the objects S in 1 to n steps
ReachedIn(S, n) ==
    IF n = 0 THEN {}
    ELSE LET next == UNION {RefsOf(i) : i \in S}
         IN  next \cup ReachedIn(next, n - 1)

ReachedFrom(i) == ReachedIn({i}, Len(heap))

\* some object stringify renders is reached again while it is being rendered
CycleFromRoot == \E i \in {1} \cup ReachedFrom(1) : i \in ReachedFrom(i)

\* sub occurs in s
Contains(s, sub) ==
    \E i \in 1..(Len(s) - Len(sub) + 1) : SubSeq(s, i, i + Len(sub) - 1) = sub

Stringified(text) == pc = "stringified" /\ Returned(Str(text))

\* C20: stringify writes [Circular] where an object is reached again while
\* it is being rendered, and renders the rest as usual: it writes [Circular]
\* exactly when there is such an object, r = { a: 1 } with r.self = r gives
\* { a: 1, self: [Circular] }, and so it is for a cycle through an array item,
\* a Map value or a Set element.
C20_Circular ==
    pc = "stringified"
    => /\ last.effect.out[1] = "return"
       /\ Contains(last.effect.out[2][2], <<"[","C","i","r","c","u","l","a","r","]">>) <=> CycleFromRoot
       /\ heap = <<Obj(<< <<<<"a">>, Num(1)>>, <<<<"s","e","l","f">>, Ref(1)>> >>)>>
             => Stringified(<<"{">> \o <<" ","a",":"," ","1",","," ","s","e","l","f",":"," ","[","C","i","r","c","u","l","a","r","]"," ">> \o <<"}">>)
       /\ heap = <<Obj(<< <<<<"a">>, Num(1)>>, <<<<"s","e","l","f">>, Ref(2)>> >>), Arr(<<Ref(1)>>)>>
             => Stringified(<<"{">> \o <<" ","a",":"," ","1",","," ","s","e","l","f",":"," ","[","[","C","i","r","c","u","l","a","r","]","]"," ">> \o <<"}">>)
       /\ heap = <<Obj(<< <<<<"a">>, Num(1)>>, <<<<"s","e","l","f">>, Ref(2)>> >>),
                   Map(<< <<Str(<<"k">>), Ref(1)>> >>)>>
             => Stringified(<<"{">> \o <<" ","a",":"," ","1",","," ","s","e","l","f",":"," ","M","a","p","(","1",")"," ","{"," ","\"","k","\""," ","=",">"," ","[","C","i","r","c","u","l","a","r","]"," ","}"," ">> \o <<"}">>)
       /\ heap = <<Obj(<< <<<<"a">>, Num(1)>>, <<<<"s","e","l","f">>, Ref(2)>> >>), Set(<<Ref(1)>>)>>
             => Stringified(<<"{">> \o <<" ","a",":"," ","1",","," ","s","e","l","f",":"," ","S","e","t","(","1",")"," ","{"," ","[","C","i","r","c","u","l","a","r","]"," ","}"," ">> \o <<"}">>)
       /\ heap = <<Obj(<< <<<<"a">>, Ref(2)>>, <<<<"s","e","l","f">>, Ref(2)>> >>), Set(<<Num(1)>>)>>
             => Stringified(<<"{">> \o <<" ","a",":"," ","S","e","t","(","1",")"," ","{"," ","1"," ","}",","," ","s","e","l","f",":"," ","S","e","t","(","1",")"," ","{"," ","1"," ","}"," ">> \o <<"}">>)

C20_Witness ==
    /\ pc = "stringified"
    /\ heap = <<Obj(<< <<<<"a">>, Num(1)>>, <<<<"s","e","l","f">>, Ref(2)>> >>),
                Map(<< <<Str(<<"k">>), Ref(1)>> >>)>>
    /\ Returned(Str(<<"{">> \o <<" ","a",":"," ","1",","," ","s","e","l","f",":"," ","M","a","p","(","1",")"," ","{"," ","\"","k","\""," ","=",">"," ","[","C","i","r","c","u","l","a","r","]"," ","}"," ">> \o <<"}">>))

\* C21 (as claimed): stringify is total: for every value it ends and
\* returns a string, and raises nothing.
C21_Total ==
    pc = "stringified"
    => /\ last.effect.out[1] = "return"
       /\ typeof(last.effect.out[2]) = "string"

\* the keys of the model that are bare identifiers
BareKeys == { <<"a","b","c">>, <<"$","v","a","l","i","d">>, <<"_","k","e","y","1","2","3">> }

\* a key as the claim writes it: bare, double-quoted, or the symbol's
\* descriptive form
KeyText(k) ==
    IF IsSymbolKey(k) THEN <<"S","y","m","b","o","l","(">> \o SubSeq(k, 2, Len(k)) \o <<")">>
    ELSE IF k \in BareKeys THEN k
    ELSE <<"\"">> \o k \o <<"\"">>

RECURSIVE EntriesText(_)
\* key: value, key: value, ... for entries whose values are single digits
EntriesText(es) ==
    IF es = << >> THEN << >>
    ELSE KeyText(es[1][1]) \o <<":"," ">> \o <<DigitChars[es[1][2][2] + 1]>>
            \o (IF Len(es) = 1 THEN << >> ELSE <<","," ">> \o EntriesText(Tail(es)))

\* C22 (as claimed): a plain record renders as { key: value, ... } in
\* the order its keys are enumerated, {} when it has none; a key that is a
\* bare identifier is written bare, any other string key double-quoted, and a
\* symbol key as its descriptive form with nothing added.
C22_Keys ==
    (pc = "stringified" /\ typeof(adt) = "object")
    => Returned(Str(IF adt[2] = << >> THEN <<"{", "}">>
                    ELSE <<"{", " ">> \o EntriesText(adt[2]) \o <<" ", "}">>))

RECURSIVE Occurrences(_, _)
\* how many times sub occurs in s
Occurrences(s, sub) ==
    IF Len(s) < Len(sub) THEN 0
    ELSE (IF SubSeq(s, 1, Len(sub)) = sub THEN 1 ELSE 0) + Occurrences(Tail(s), sub)

\* C23 (as claimed): a number, a boolean and null render as their literal
\* text, a string double-quoted, undefined as undefined, a big integer as its
\* digits and n, and the empty array, record, Map and Set as [], {}, Map(0) {}
\* and Set(0) {}; the size written for a Map or a Set is the number of its
\* entries rendered.
C23_FixedPoints ==
    pc = "stringified"
    => /\ adt = Num(42) => Stringified(<<"4","2">>)
       /\ adt = Num(0) => Stringified(<<"0">>)
       /\ adt = Num(-7) => Stringified(<<"-","7">>)
       /\ adt = NotANumber => Stringified(<<"N","a","N">>)
       /\ adt = PositiveInfinity => Stringified(<<"I","n","f","i","n","i","t","y">>)
       /\ adt = Bool(TRUE) => Stringified(<<"t","r","u","e">>)
       /\ adt = Bool(FALSE) => Stringified(<<"f","a","l","s","e">>)
       /\ adt = Null => Stringified(<<"n","u","l","l">>)
       /\ adt = Undefined => Stringified(<<"u","n","d","e","f","i","n","e","d">>)
       /\ adt = Str(<<"x">>) => Stringified(<<"\"", "x", "\"">>)
       /\ adt = Str(<< >>) => Stringified(<<"\"", "\"">>)
       /\ adt = BigInt(123) => Stringified(<<"1","2","3","n">>)
       /\ adt = Arr(<< >>) => Stringified(<<"[","]">>)
       /\ adt = Obj(<< >>) => Stringified(<<"{", "}">>)
       /\ adt = Map(<< >>) => Stringified(<<"M","a","p","(","0",")"," ">> \o <<"{", "}">>)
       /\ adt = Set(<< >>) => Stringified(<<"S","e","t","(","0",")"," ">> \o <<"{", "}">>)
       /\ (typeof(adt) = "map" /\ ~Threw)
             => LET text == last.effect.out[2][2]
                    size == Occurrences(text, <<" ","=",">"," ">>)
                IN  /\ size = Len(adt[2])
                    /\ SubSeq(text, 1, 6) = <<"M","a","p","(">> \o <<DigitChars[size + 1]>> \o <<")">>
       /\ (typeof(adt) = "set" /\ ~Threw)
             => LET text == last.effect.out[2][2]
                    size == IF adt[2] = << >> THEN 0 ELSE Occurrences(text, <<","," ">>) + 1
                IN  /\ size = Len(adt[2])
                    /\ SubSeq(text, 1, 6) = <<"S","e","t","(">> \o <<DigitChars[size + 1]>> \o <<")">>

(***************************************************************************)
(* C24: every value a generated constructor returned, and every generated  *)
(* constructor, has pipe, and x.pipe(f1, ..., fn) returns x for n = 0 and  *)
(* fn(...f2(f1(x))...) otherwise, below ten functions and from ten on,     *)
(* each function called once, in order, with the previous result.          *)
(***************************************************************************)
RECURSIVE PipeFold(_, _, _)
\* what the first n functions of fs make of x, applied left to right
PipeFold(x, fs, n) ==
    IF n = 0 THEN x
    ELSE <<"result", fs[n][3], <<PipeFold(x, fs, n - 1)>> >>

LeftToRight ==
    /\ last.effect.out = <<"return", PipeFold(adt, last.args, Len(last.args))>>
    /\ Len(last.effect.calls) = Len(last.args)
    /\ \A i \in 1..Len(last.args) :
          last.effect.calls[i] = <<last.args[i], <<PipeFold(adt, last.args, i - 1)>> >>

C24_Pipe ==
    pc = "piped" /\ origin.kind \in {"constructed", "constructor"} => LeftToRight

(***************************************************************************)
(* C25: a matcher consults only the case mapping's own entries.  Every     *)
(* function a dispatch calls is the value of an own entry of the mapping,  *)
(* and a value for which the mapping has no own case and no own catch-all  *)
(* ends in NoCaseMatched: what the mapping inherits is never called.       *)
(***************************************************************************)
\* f is the value of an own entry of the case mapping of the call
OwnEntryOfCases(f) ==
    \E k \in 1..Len(OwnEntries(CasesOfCall)) : OwnEntries(CasesOfCall)[k][2] = f

C25_OwnEntriesOnly ==
    Dispatched
    => /\ \A i \in 1..Len(last.effect.calls) : OwnEntryOfCases(last.effect.calls[i][1])
       /\ (NoOwnCase /\ ~HasOwn(CasesOfCall, S_underscore))
          => (last.effect.calls = << >> /\ last.effect.out = NoCaseMatched(adt))

(***************************************************************************)
(* C26: the helpers agree on field extraction.  For a value that has a     *)
(* discriminant T, written by a constructor or by hand, with its field     *)
(* keys in any order and with gaps, the bundle-wide unwrap of both modes   *)
(* and unwrapT return, and the T case of a matcher and onMatch of ifT are  *)
(* called with, the sequence the standalone unwrap returns for the value,  *)
(* in the same order.                                                      *)
(***************************************************************************)
C26_Agreement ==
    (pc = "done" /\ ~IsNullish(adt) /\ HasOwn(adt, S_tag))
    => /\ (last.op = "Bundle.unwrap" /\ (variants = Undefined \/ ~NotInVariants(variants, adt)))
          => Returned(Arr(unwrap(adt)))
       /\ (last.op = "unwrapTag" /\ Discriminant(adt) = Str(last.fn[5]))
          => Returned(Arr(unwrap(adt)))
       /\ (Dispatched /\ HasOwn(CasesOfCall, ToPropertyKey(Discriminant(adt))))
          => /\ Len(last.effect.calls) = 1
             /\ last.effect.calls[1][2] = unwrap(adt)
       /\ (last.op = "if" /\ Discriminant(adt) = Str(last.fn[5]))
          => last.effect.calls = << <<onMatch, unwrap(adt)>> >>

\* precomputed mode, { _tag: "Some", _2: 1, _0: 2 }: Bundle.unwrap returns [2, 1]
C26_Witness ==
    /\ pc = "done"
    /\ last.op = "Bundle.unwrap"
    /\ variants # Undefined
    /\ adt = Obj(<< <<S_tag, Str(T_Some)>>, <<<<"_","2">>, Num(1)>>, <<<<"_","0">>, Num(2)>> >>)
    /\ unwrap(adt) = <<Num(2), Num(1)>>
    /\ Returned(Arr(<<Num(2), Num(1)>>))

(***************************************************************************)
(* C28: in precomputed mode the tag is validated before dispatch.  For a   *)
(* value that is null or undefined or whose discriminant is not declared,  *)
(* match and matchW, called directly or as the application of a curried    *)
(* matcher, raise the TypeError of InvalidVariant and call no entry of the *)
(* case mapping, whatever entries it has; and building the curried matcher *)
(* from a case mapping validates nothing: it raises nothing, calls nothing *)
(* and returns the matcher, whatever value is to come.                     *)
(***************************************************************************)
C28_ValidationFirst ==
    /\ ((DirectMatch \/ CurriedMatch) /\ variants # Undefined /\ Undeclared)
          => /\ last.effect.calls = << >>
             /\ Threw
             /\ last.effect.out[2] = <<"T","y","p","e","E","r","r","o","r">>
             /\ startsWith(last.effect.out[3], <<"E","x","p","e","c","t","e","d"," ">>)
    /\ (pc = "curried" /\ variants # Undefined)
          => /\ last.effect.calls = << >>
             /\ ~Threw
             /\ typeof(last.effect.out[2]) = "function"
             /\ last.effect.out[2][5][2] = last.args[1]

\* make(["Some", "None"]).matchW({ _, toString })({ _tag: "toString" })
C28_Witness ==
    /\ pc = "done"
    /\ last.op = "matchW(cases)(adt)"
    /\ variants # Undefined
    /\ Discriminant(adt) = Str(S_toString)
    /\ HasOwn(CasesOfCall, S_toString)
    /\ HasOwn(CasesOfCall, S_underscore)
    /\ last.effect.calls = << >>
    /\ Threw

(***************************************************************************)
(* C29: a value whose discriminant is the string `_`.  When a matcher      *)
(* dispatches it and the case mapping has a `_` entry, the entry is called *)
(* as the value's own case, with the value's fields as its arguments, and  *)
(* not with the value; for a value of any other discriminant the `_`       *)
(* entry, when it is called, is called with the value itself.              *)
(***************************************************************************)
C29_UnderscoreTag ==
    (Dispatched /\ HasOwn(CasesOfCall, S_underscore))
    => /\ (~IsNullish(adt) /\ Discriminant(adt) = Str(S_underscore))
             => /\ last.effect = Invoke(Handler(S_underscore), CasesOfCall, unwrap(adt))
                /\ last.effect.calls[1][2] # <<adt>>
       /\ (/\ last.effect.calls # << >>
           /\ last.effect.calls[1][1] = Handler(S_underscore)
           /\ (IsNullish(adt) \/ Discriminant(adt) # Str(S_underscore)))
             => last.effect = Invoke(Handler(S_underscore), CasesOfCall, <<adt>>)

\* const A = make(); A.match({ _: f })(A._(1, 2)) calls f(1, 2)
C29_Witness ==
    /\ pc = "done"
    /\ last.op = "match(cases)(adt)"
    /\ variants = Undefined
    /\ origin.kind = "constructed"
    /\ origin.tag = S_underscore
    /\ origin.args = <<Num(1), Num(2)>>
    /\ last.effect.calls = << <<Handler(S_underscore), <<Num(1), Num(2)>> >> >>

(***************************************************************************)
(* C27: in dynamic mode the helper of a property name is made by the first *)
(* read of the name and reused afterwards: in every sequence of reads of   *)
(* one bundle, two reads of the same name return the same function,        *)
(* whatever was read in between.                                           *)
(***************************************************************************)
\* the i-th read returned the function the j-th read returned
SameHelper(i, j) == last.effect.out[2][2][i] = last.effect.out[2][2][j]

C27_Reused ==
    (pc = "reading" /\ variants = Undefined)
    => \A i, j \in 1..Len(last.args) : last.args[i] = last.args[j] => SameHelper(i, j)

(***************************************************************************)
(* C30: stringify writes [Circular] only for an object that is an ancestor *)
(* of the position being rendered.  It writes it once for every reference  *)
(* to an object on the path from the root to that reference and nowhere    *)
(* else, so an object referenced from two sibling positions is rendered in *)
(* full at both, and what one position met is not kept for the next.       *)
(***************************************************************************)
\* the values of the slots of the i-th object, in the order they are rendered
SlotsOf(i) ==
    LET o == heap[i]
    IN  IF typeof(o) \in {"object", "map"} THEN [k \in 1..Len(o[2]) |-> o[2][k][2]]
        ELSE o[2]

RECURSIVE BackReferences(_, _)
\* the references to an object of `path` met when the last object of path is
\* rendered, path being the objects from the root down to it
BackReferences(path, k) ==
    LET slots == SlotsOf(path[Len(path)])
    IN  IF k > Len(slots) THEN 0
        ELSE (IF slots[k][1] # "ref" THEN 0
              ELSE IF \E p \in 1..Len(path) : path[p] = slots[k][2] THEN 1
              ELSE BackReferences(Append(path, slots[k][2]), 1))
             + BackReferences(path, k + 1)

C30_AncestorsOnly ==
    pc = "stringified"
    => /\ last.effect.out[1] = "return"
       /\ Occurrences(last.effect.out[2][2], <<"[","C","i","r","c","u","l","a","r","]">>) = BackReferences(<<1>>, 1)
       /\ heap = <<Obj(<< <<<<"a">>, Ref(2)>>, <<<<"s","e","l","f">>, Ref(2)>> >>), Arr(<<Num(1)>>)>>
             => Stringified(<<"{">> \o <<" ","a",":"," ","[","1","]",","," ","s","e","l","f",":"," ","[","1","]"," ">> \o <<"}">>)
       /\ heap = <<Obj(<< <<<<"a">>, Ref(2)>>, <<<<"s","e","l","f">>, Ref(2)>> >>), Arr(<<Ref(1)>>)>>
             => Stringified(<<"{">> \o <<" ","a",":"," ","[","[","C","i","r","c","u","l","a","r","]","]",","," ","s","e","l","f",":"," ","[","[","C","i","r","c","u","l","a","r","]","]"," ">> \o <<"}">>)

\* const shared = [1]; stringify({ a: shared, self: shared })
C30_Witness ==
    /\ pc = "stringified"
    /\ heap = <<Obj(<< <<<<"a">>, Ref(2)>>, <<<<"s","e","l","f">>, Ref(2)>> >>), Arr(<<Num(1)>>)>>
    /\ BackReferences(<<1>>, 1) = 0
    /\ Returned(Str(<<"{">> \o <<" ","a",":"," ","[","1","]",","," ","s","e","l","f",":"," ","[","1","]"," ">> \o <<"}">>))

====
